---- MODULE Spec2Model ----
(***************************************************************************)
(* State-machine model of the GamePage turn engine                         *)
(* (src/apps/web/src/pages/GamePage.tsx): Tic-Tac-Toe with decay,          *)
(* Connect Four and Rock-Paper-Scissors, in local (AI) mode and in         *)
(* server-authoritative multiplayer mode.                                  *)
(*                                                                         *)
(* Every React state cell (useState) is a variable of the same name.  An   *)
(* action is one event handler run to completion (a click, one interval    *)
(* tick, one setTimeout callback, one transport message) followed by the   *)
(* useEffect bodies that its state changes trigger.  A handler reads the   *)
(* state through the closure it was created in, so the callbacks handed to *)
(* createGameClient see the values of the first render (side = null,       *)
(* gameClient = null), and a setTimeout callback sees the values captured  *)
(* when it was scheduled; those captured values are kept in the timer.     *)
(***************************************************************************)
EXTENDS Integers, Sequences, FiniteSets

VARIABLES
    \* props of the component (fixed for the session)
    game, opponentType, role, playMode, stakeAmount,
    \* exploration profile chosen at Init: which counters are bounded
    scope,
    \* session state
    turnTime, gameState, winner, earnedARK, earnedXP, started,
    pendingWinnerSide, side,
    \* Tic-Tac-Toe
    tttBoard, tttCurrentPlayer, playerMoves, opponentMoves, fadingCell,
    \* Connect Four
    c4Board, c4CurrentPlayer, c4DroppingToken, c4RoundCount,
    \* Rock-Paper-Scissors
    rpsPlayerChoice, rpsOpponentChoice, rpsPlayerScore, rpsOpponentScore,
    rpsCurrentRound, rpsRoundResult, rpsRevealing, rpsWaitingForOpponent,
    pendingRpsReveal,
    \* pending setTimeout callbacks, each with the values its closure captured
    timers,
    \* transport channel and collaborators
    wsOpen, timerClient, sent, asyncEnds, lastSubmit,
    endCalls, xpAdds, submits, closes, refreshes,
    \* bookkeeping: accepted moves / inbound events so far, last handler run,
    \* result of the last pure-function evaluation
    steps, lastEvent, probe,
    \* FALSE once the page has been torn down
    mounted

vars == << game, opponentType, role, playMode, stakeAmount, scope,
           turnTime, gameState, winner, earnedARK, earnedXP, started,
           pendingWinnerSide, side,
           tttBoard, tttCurrentPlayer, playerMoves, opponentMoves, fadingCell,
           c4Board, c4CurrentPlayer, c4DroppingToken, c4RoundCount,
           rpsPlayerChoice, rpsOpponentChoice, rpsPlayerScore, rpsOpponentScore,
           rpsCurrentRound, rpsRoundResult, rpsRevealing, rpsWaitingForOpponent,
           pendingRpsReveal, timers,
           wsOpen, timerClient, sent, asyncEnds, lastSubmit,
           endCalls, xpAdds, submits, closes, refreshes,
           steps, lastEvent, probe, mounted >>

-----------------------------------------------------------------------------
\* Program constants

\* the per-turn budget, useState(30) and resetTurnTimer
TurnBudget == 30
\* null of a string-valued state cell
Null == "null"
\* null of fadingCell (a cell index or null)
NoCell == -1
\* null of c4DroppingToken ({col,row} or null)
NoToken == [col |-> -1, row |-> -1]
\* Connect Four grid
C4Rows == 6
C4Cols == 7
\* first-to-5 threshold of Rock-Paper-Scissors
RpsTarget == 5

\* Bounds of the exploration
\* board profile: ticks explored below the budget within one turn
MaxIdleTicks == 1
\* clock profile: accepted local moves explored
MaxClockMoves == 1
\* multiplayer: inbound transport events explored
MaxEvents == 2
\* Connect Four board profile: player drops explored from the starting position
MaxDrops == 2
\* Rock-Paper-Scissors board profile: rounds explored
MaxRounds == 6
\* inbound events of a session of the reveal profile
MaxRpsEvents == 5

TTTCells == 0..8
C4Cells == 0..(C4Rows * C4Cols - 1)
Sides == {"a", "b"}
Choices == {"rock", "paper", "scissors"}

-----------------------------------------------------------------------------
\* The state as one record, so that a handler is a function from state to
\* state and the effects can be applied to its result.

State ==
    [ game |-> game, opponentType |-> opponentType, role |-> role,
      playMode |-> playMode, stakeAmount |-> stakeAmount, scope |-> scope,
      turnTime |-> turnTime, gameState |-> gameState, winner |-> winner,
      earnedARK |-> earnedARK, earnedXP |-> earnedXP, started |-> started,
      pendingWinnerSide |-> pendingWinnerSide, side |-> side,
      tttBoard |-> tttBoard, tttCurrentPlayer |-> tttCurrentPlayer,
      playerMoves |-> playerMoves, opponentMoves |-> opponentMoves,
      fadingCell |-> fadingCell,
      c4Board |-> c4Board, c4CurrentPlayer |-> c4CurrentPlayer,
      c4DroppingToken |-> c4DroppingToken, c4RoundCount |-> c4RoundCount,
      rpsPlayerChoice |-> rpsPlayerChoice, rpsOpponentChoice |-> rpsOpponentChoice,
      rpsPlayerScore |-> rpsPlayerScore, rpsOpponentScore |-> rpsOpponentScore,
      rpsCurrentRound |-> rpsCurrentRound, rpsRoundResult |-> rpsRoundResult,
      rpsRevealing |-> rpsRevealing,
      rpsWaitingForOpponent |-> rpsWaitingForOpponent,
      pendingRpsReveal |-> pendingRpsReveal, timers |-> timers,
      wsOpen |-> wsOpen, timerClient |-> timerClient, sent |-> sent,
      asyncEnds |-> asyncEnds, lastSubmit |-> lastSubmit,
      endCalls |-> endCalls, xpAdds |-> xpAdds, submits |-> submits,
      closes |-> closes, refreshes |-> refreshes,
      steps |-> steps, lastEvent |-> lastEvent, probe |-> probe,
      mounted |-> mounted ]

Commit(r) ==
    /\ game' = r.game /\ opponentType' = r.opponentType /\ role' = r.role
    /\ playMode' = r.playMode /\ stakeAmount' = r.stakeAmount
    /\ scope' = r.scope
    /\ turnTime' = r.turnTime /\ gameState' = r.gameState
    /\ winner' = r.winner /\ earnedARK' = r.earnedARK
    /\ earnedXP' = r.earnedXP /\ started' = r.started
    /\ pendingWinnerSide' = r.pendingWinnerSide /\ side' = r.side
    /\ tttBoard' = r.tttBoard /\ tttCurrentPlayer' = r.tttCurrentPlayer
    /\ playerMoves' = r.playerMoves /\ opponentMoves' = r.opponentMoves
    /\ fadingCell' = r.fadingCell
    /\ c4Board' = r.c4Board /\ c4CurrentPlayer' = r.c4CurrentPlayer
    /\ c4DroppingToken' = r.c4DroppingToken /\ c4RoundCount' = r.c4RoundCount
    /\ rpsPlayerChoice' = r.rpsPlayerChoice
    /\ rpsOpponentChoice' = r.rpsOpponentChoice
    /\ rpsPlayerScore' = r.rpsPlayerScore
    /\ rpsOpponentScore' = r.rpsOpponentScore
    /\ rpsCurrentRound' = r.rpsCurrentRound
    /\ rpsRoundResult' = r.rpsRoundResult
    /\ rpsRevealing' = r.rpsRevealing
    /\ rpsWaitingForOpponent' = r.rpsWaitingForOpponent
    /\ pendingRpsReveal' = r.pendingRpsReveal /\ timers' = r.timers
    /\ wsOpen' = r.wsOpen /\ timerClient' = r.timerClient /\ sent' = r.sent
    /\ asyncEnds' = r.asyncEnds /\ lastSubmit' = r.lastSubmit
    /\ endCalls' = r.endCalls /\ xpAdds' = r.xpAdds /\ submits' = r.submits
    /\ closes' = r.closes /\ refreshes' = r.refreshes
    /\ steps' = r.steps /\ lastEvent' = r.lastEvent /\ probe' = r.probe
    /\ mounted' = r.mounted

-----------------------------------------------------------------------------
\* Side and role mapping (GamePage.tsx 116-121)

\* playerSymbol as computed by a render in which side has the value sd
SymbolOf(sd, rl) ==
    IF sd # Null THEN (IF sd = "a" THEN "X" ELSE "O")
    ELSE (IF rl = "p2" THEN "O" ELSE "X")

playerSymbol(s) == SymbolOf(s.side, s.role)

opponentSymbol(s) == IF playerSymbol(s) = "X" THEN "O" ELSE "X"

ColorOf(sd, rl) ==
    IF sd # Null THEN (IF sd = "a" THEN "red" ELSE "yellow")
    ELSE (IF rl = "p2" THEN "yellow" ELSE "red")

playerColor(s) == ColorOf(s.side, s.role)

opponentColor(s) == IF playerColor(s) = "red" THEN "yellow" ELSE "red"

\* the session talks to a server (the WebSocket effect created a client)
Multiplayer(s) == s.opponentType = "player"

\* gameClient as seen by a handler of the current render
HasClient(s) == Multiplayer(s)

Mark(s, name, arg) == [s EXCEPT !.lastEvent = [name |-> name, arg |-> arg]]

-----------------------------------------------------------------------------
\* Match Session Controller

\* calculateXPChange of ../types: only its sign is modelled
calculateXPChange(won) == IF won THEN 1 ELSE -1

\* a submission that names the local player as winner of every decided game
SubmitRecordLocalWinner(gameWinner) ==
    IF gameWinner = "draw"
    THEN [winner |-> Null, loser |-> Null, outcome |-> "draw"]
    ELSE [winner |-> "address", loser |-> "opponentWallet", outcome |-> "win"]

\* the record handed to submitMatchResult
SubmitRecord(gameWinner) ==
    IF gameWinner = "player"
    THEN [winner |-> "address", loser |-> "opponentWallet", outcome |-> "win"]
    ELSE IF gameWinner = "draw"
    THEN [winner |-> Null, loser |-> Null, outcome |-> "draw"]
    ELSE [winner |-> "opponentWallet", loser |-> "address", outcome |-> "loss"]

\* gameClient.close(): closing a closed socket changes nothing but is counted
CloseSocket(s) == [s EXCEPT !.wsOpen = FALSE, !.closes = @ + 1]

\* an end-of-game handling that pays a win with the stake once
handleGameEndSingleStake(s, gameWinner, client) ==
    LET won == gameWinner = "player"
        s1 == [s EXCEPT !.winner = gameWinner, !.gameState = "finished",
                        !.endCalls = @ + 1]
        s2 == IF s.playMode = "stake"
              THEN [s1 EXCEPT !.earnedXP = calculateXPChange(won),
                              !.earnedARK = IF won THEN s.stakeAmount
                                            ELSE 0 - s.stakeAmount,
                              !.xpAdds = @ + 1]
              ELSE [s1 EXCEPT !.earnedXP = 0, !.earnedARK = 0]
    IN  IF Multiplayer(s)
        THEN [s2 EXCEPT !.submits = @ + 1,
                        !.lastSubmit = SubmitRecord(gameWinner),
                        !.asyncEnds = Append(@, [client |-> client,
                                                 stage |-> 0])]
        ELSE IF client THEN CloseSocket(s2) ELSE s2

\* an end-of-game handling that returns the stake on a draw
handleGameEndDrawRefund(s, gameWinner, client) ==
    LET won == gameWinner = "player"
        s1 == [s EXCEPT !.winner = gameWinner, !.gameState = "finished",
                        !.endCalls = @ + 1]
        s2 == IF s.playMode = "stake"
              THEN [s1 EXCEPT !.earnedXP = IF gameWinner = "draw" THEN 0
                                           ELSE calculateXPChange(won),
                              !.earnedARK = IF won THEN s.stakeAmount * 2
                                            ELSE IF gameWinner = "draw" THEN 0
                                            ELSE 0 - s.stakeAmount,
                              !.xpAdds = @ + 1]
              ELSE [s1 EXCEPT !.earnedXP = 0, !.earnedARK = 0]
    IN  IF Multiplayer(s)
        THEN [s2 EXCEPT !.submits = @ + 1,
                        !.lastSubmit = SubmitRecord(gameWinner),
                        !.asyncEnds = Append(@, [client |-> client,
                                                 stage |-> 0])]
        ELSE IF client THEN CloseSocket(s2) ELSE s2

\* handleGameEnd up to its first await; client tells whether the closure that
\* runs it captured a non-null gameClient
handleGameEnd(s, gameWinner, client) ==
    LET won == gameWinner = "player"
        s1 == [s EXCEPT !.winner = gameWinner, !.gameState = "finished",
                        !.endCalls = @ + 1]
        s2 == IF s.playMode = "stake"
              THEN [s1 EXCEPT !.earnedXP = calculateXPChange(won),
                              !.earnedARK = IF won THEN s.stakeAmount * 2
                                            ELSE 0 - s.stakeAmount,
                              !.xpAdds = @ + 1]
              ELSE [s1 EXCEPT !.earnedXP = 0, !.earnedARK = 0]
    IN  IF Multiplayer(s)
        THEN [s2 EXCEPT !.submits = @ + 1,
                        !.lastSubmit = SubmitRecord(gameWinner),
                        !.asyncEnds = Append(@, [client |-> client,
                                                 stage |-> 0])]
        ELSE IF client THEN CloseSocket(s2) ELSE s2

resetTurnTimer(s) == [s EXCEPT !.turnTime = TurnBudget]

-----------------------------------------------------------------------------
\* Tic-Tac-Toe rule engine

TTTLines ==
    << <<0, 1, 2>>, <<3, 4, 5>>, <<6, 7, 8>>,
       <<0, 3, 6>>, <<1, 4, 7>>, <<2, 5, 8>>,
       <<0, 4, 8>>, <<2, 4, 6>> >>

RECURSIVE ScanTTT(_, _)
ScanTTT(squares, i) ==
    IF i > Len(TTTLines) THEN Null
    ELSE LET a == TTTLines[i][1]
             b == TTTLines[i][2]
             c == TTTLines[i][3]
         IN  IF squares[a] # Null /\ squares[a] = squares[b]
                /\ squares[a] = squares[c]
             THEN squares[a]
             ELSE ScanTTT(squares, i + 1)

\* a winner check that looks for a line of X before a line of O
checkTTTWinnerXFirst(squares) ==
    LET has(sym) == \E i \in DOMAIN TTTLines :
                        \A k \in 1..3 : squares[TTTLines[i][k]] = sym
    IN  IF has("X") THEN "X" ELSE IF has("O") THEN "O" ELSE Null

checkTTTWinner(squares) == ScanTTT(squares, 1)

EmptyTTT == [i \in TTTCells |-> Null]

\* an AI that is asked twice for every player move
makeAIMoveTwice(s, currentBoard, currentOpponentMoves) ==
    LET t == [kind |-> "aiThink", board |-> currentBoard,
              moves |-> currentOpponentMoves, index |-> NoCell, opp |-> << >>]
    IN  [s EXCEPT !.timers = Append(Append(@, t), t)]

\* makeAIMove: schedules the thinking timer with the board and history passed
makeAIMove(s, currentBoard, currentOpponentMoves) ==
    [s EXCEPT !.timers = Append(@, [kind |-> "aiThink", board |-> currentBoard,
                                    moves |-> currentOpponentMoves,
                                    index |-> NoCell, opp |-> << >>])]

\* handleTTTCellClick, local branch (lines 571-625)
TTTLocalMove(s, index) ==
    IF Len(s.playerMoves) >= 3
    THEN [s EXCEPT !.fadingCell = s.playerMoves[1],
                   !.timers = Append(@, [kind |-> "playerFade",
                                         board |-> s.tttBoard,
                                         moves |-> s.playerMoves,
                                         index |-> index,
                                         opp |-> s.opponentMoves])]
    ELSE LET newBoard == [s.tttBoard EXCEPT ![index] = playerSymbol(s)]
             s1 == [s EXCEPT !.tttBoard = newBoard,
                             !.playerMoves = Append(@, index)]
         IN  IF checkTTTWinner(newBoard) = playerSymbol(s)
             THEN handleGameEnd(s1, "player", HasClient(s))
             ELSE makeAIMove(
                    resetTurnTimer([s1 EXCEPT !.tttCurrentPlayer = opponentSymbol(s)]),
                    newBoard, s.opponentMoves)

\* a multiplayer branch that also places the mark on the local board
handleTTTCellClickOptimisticBoard(s, index) ==
    IF ~s.started \/ s.tttBoard[index] # Null
       \/ s.tttCurrentPlayer # playerSymbol(s) \/ s.fadingCell # NoCell
    THEN s
    ELSE IF s.opponentType = "player"
    THEN IF HasClient(s)
         THEN [s EXCEPT !.sent = Append(@, "move"),
                        !.tttBoard[index] = playerSymbol(s),
                        !.tttCurrentPlayer = opponentSymbol(s)]
         ELSE s
    ELSE TTTLocalMove(s, index)

\* a handler without the test for an occupied cell
handleTTTCellClickOverwrites(s, index) ==
    IF ~s.started
       \/ s.tttCurrentPlayer # playerSymbol(s) \/ s.fadingCell # NoCell
    THEN s
    ELSE IF s.opponentType = "player"
    THEN IF HasClient(s)
         THEN [s EXCEPT !.sent = Append(@, "move"),
                        !.tttCurrentPlayer = opponentSymbol(s)]
         ELSE s
    ELSE TTTLocalMove(s, index)

\* a multiplayer branch that sends the move and keeps the turn
handleTTTCellClickNoBlock(s, index) ==
    IF ~s.started \/ s.tttBoard[index] # Null
       \/ s.tttCurrentPlayer # playerSymbol(s) \/ s.fadingCell # NoCell
    THEN s
    ELSE IF s.opponentType = "player"
    THEN IF HasClient(s) THEN [s EXCEPT !.sent = Append(@, "move")] ELSE s
    ELSE TTTLocalMove(s, index)

\* handleTTTCellClick (lines 557-628)
handleTTTCellClick(s, index) ==
    IF ~s.started \/ s.tttBoard[index] # Null
       \/ s.tttCurrentPlayer # playerSymbol(s) \/ s.fadingCell # NoCell
    THEN s
    ELSE IF s.opponentType = "player"
    THEN IF HasClient(s)
         THEN [s EXCEPT !.sent = Append(@, "move"),
                        !.tttCurrentPlayer = opponentSymbol(s)]
         ELSE s
    ELSE TTTLocalMove(s, index)

\* the callback without the removal of the oldest mark from the board
PlayerFadeDoneKeepsOldest(s, t) ==
    LET updatedBoard == [t.board EXCEPT ![t.index] = playerSymbol(s)]
        s1 == [s EXCEPT !.tttBoard = updatedBoard, !.fadingCell = NoCell,
                        !.playerMoves = Append(Tail(t.moves), t.index)]
    IN  IF checkTTTWinner(updatedBoard) = playerSymbol(s)
        THEN handleGameEnd(s1, "player", HasClient(s))
        ELSE makeAIMove(
               resetTurnTimer([s1 EXCEPT !.tttCurrentPlayer = opponentSymbol(s)]),
               updatedBoard, t.opp)

\* the callback removing the newest mark of the history instead of the oldest
PlayerFadeDoneEvictsNewest(s, t) ==
    LET updatedBoard == [t.board EXCEPT ![t.moves[3]] = Null,
                                        ![t.index] = playerSymbol(s)]
        s1 == [s EXCEPT !.tttBoard = updatedBoard, !.fadingCell = NoCell,
                        !.playerMoves = Append(SubSeq(t.moves, 1, 2), t.index)]
    IN  IF checkTTTWinner(updatedBoard) = playerSymbol(s)
        THEN handleGameEnd(s1, "player", HasClient(s))
        ELSE makeAIMove(
               resetTurnTimer([s1 EXCEPT !.tttCurrentPlayer = opponentSymbol(s)]),
               updatedBoard, t.opp)

\* the 400ms callback of handleTTTCellClick (lines 581-605); t is the timer
\* with the captured board, history and target cell
PlayerFadeDone(s, t) ==
    LET oldestMove == t.moves[1]
        updatedBoard == [t.board EXCEPT ![oldestMove] = Null,
                                        ![t.index] = playerSymbol(s)]
        s1 == [s EXCEPT !.tttBoard = updatedBoard, !.fadingCell = NoCell,
                        !.playerMoves = Append(Tail(t.moves), t.index)]
    IN  IF checkTTTWinner(updatedBoard) = playerSymbol(s)
        THEN handleGameEnd(s1, "player", HasClient(s))
        ELSE makeAIMove(
               resetTurnTimer([s1 EXCEPT !.tttCurrentPlayer = opponentSymbol(s)]),
               updatedBoard, t.opp)

\* an AI that places its mark without ever removing its oldest one
AIThinkDoneNoDecay(s, t, aiMove) ==
    LET updatedBoard == [t.board EXCEPT ![aiMove] = "O"]
        s1 == [s EXCEPT !.tttBoard = updatedBoard,
                        !.opponentMoves = Append(t.moves, aiMove)]
    IN  IF checkTTTWinner(updatedBoard) = "O"
        THEN handleGameEnd(s1, "opponent", HasClient(s))
        ELSE resetTurnTimer([s1 EXCEPT !.tttCurrentPlayer = "X"])

\* the 700ms callback of makeAIMove (lines 631-687) choosing the empty cell aiMove
AIThinkDone(s, t, aiMove) ==
    IF Len(t.moves) >= 3
    THEN [s EXCEPT !.fadingCell = t.moves[1],
                   !.timers = Append(@, [kind |-> "aiFade", board |-> t.board,
                                         moves |-> t.moves, index |-> aiMove,
                                         opp |-> << >>])]
    ELSE LET updatedBoard == [t.board EXCEPT ![aiMove] = "O"]
             s1 == [s EXCEPT !.tttBoard = updatedBoard,
                             !.opponentMoves = Append(t.moves, aiMove)]
         IN  IF checkTTTWinner(updatedBoard) = "O"
             THEN handleGameEnd(s1, "opponent", HasClient(s))
             ELSE resetTurnTimer([s1 EXCEPT !.tttCurrentPlayer = "X"])

\* the callback with the win evaluated before the oldest mark is removed
AIFadeDoneEarlyCheck(s, t) ==
    LET oldestMove == t.moves[1]
        placed == [t.board EXCEPT ![t.index] = "O"]
        updatedBoard == [placed EXCEPT ![oldestMove] = Null]
        s1 == [s EXCEPT !.tttBoard = updatedBoard, !.fadingCell = NoCell,
                        !.opponentMoves = Append(Tail(t.moves), t.index)]
    IN  IF checkTTTWinner(placed) = "O"
        THEN handleGameEnd(s1, "opponent", HasClient(s))
        ELSE resetTurnTimer([s1 EXCEPT !.tttCurrentPlayer = "X"])

\* the 400ms callback inside makeAIMove (lines 647-668)
AIFadeDone(s, t) ==
    LET oldestMove == t.moves[1]
        updatedBoard == [t.board EXCEPT ![oldestMove] = Null, ![t.index] = "O"]
        s1 == [s EXCEPT !.tttBoard = updatedBoard, !.fadingCell = NoCell,
                        !.opponentMoves = Append(Tail(t.moves), t.index)]
    IN  IF checkTTTWinner(updatedBoard) = "O"
        THEN handleGameEnd(s1, "opponent", HasClient(s))
        ELSE resetTurnTimer([s1 EXCEPT !.tttCurrentPlayer = "X"])

-----------------------------------------------------------------------------
\* Connect Four rule engine

\* the four scans of checkC4Winner in the order of the code, each line as
\* its starting cell and the step between consecutive cells
C4Scan ==
    [k \in 1..24 |-> [idx |-> ((k - 1) \div 4) * C4Cols + ((k - 1) % 4),
                      step |-> 1]]
    \o [k \in 1..21 |-> [idx |-> ((k - 1) % 3) * C4Cols + ((k - 1) \div 3),
                         step |-> C4Cols]]
    \o [k \in 1..12 |-> [idx |-> ((k - 1) \div 4) * C4Cols + ((k - 1) % 4),
                         step |-> C4Cols + 1]]
    \o [k \in 1..12 |-> [idx |-> ((k - 1) \div 4) * C4Cols + 3 + ((k - 1) % 4),
                         step |-> C4Cols - 1]]

RECURSIVE ScanC4(_, _)
ScanC4(board, i) ==
    IF i > Len(C4Scan) THEN Null
    ELSE LET idx == C4Scan[i].idx
             d == C4Scan[i].step
         IN  IF board[idx] # Null /\ board[idx] = board[idx + d]
                /\ board[idx] = board[idx + 2 * d]
                /\ board[idx] = board[idx + 3 * d]
             THEN board[idx]
             ELSE ScanC4(board, i + 1)

\* a horizontal scan that takes any four consecutive indices for a line, the
\* end of a row and the start of the next included
checkC4WinnerWraps(board) ==
    LET hits == {idx \in 0..(C4Rows * C4Cols - 4) :
                    /\ board[idx] # Null /\ board[idx] = board[idx + 1]
                    /\ board[idx] = board[idx + 2]
                    /\ board[idx] = board[idx + 3]}
    IN  IF hits # {} THEN board[CHOOSE idx \in hits : \A j \in hits : idx <= j]
        ELSE ScanC4(board, 1)

checkC4Winner(board) == ScanC4(board, 1)

EmptyC4 == [i \in C4Cells |-> Null]

\* the lowest empty row of a column, scanning from the last row up; -1 if full
RECURSIVE LowestEmptyRow(_, _, _)
LowestEmptyRow(board, col, row) ==
    IF row < 0 THEN -1
    ELSE IF board[row * C4Cols + col] = Null THEN row
    ELSE LowestEmptyRow(board, col, row - 1)

C4Full(board) == \A i \in C4Cells : board[i] # Null

C4Timer(kind, board, col, row) ==
    [kind |-> kind, board |-> board, col |-> col, row |-> row]

\* the 2000ms full-board reset scheduled by both droppers
scheduleC4Reset(s) ==
    [s EXCEPT !.timers = Append(@, C4Timer("c4Reset", EmptyC4, -1, -1))]

\* makeC4AIMove: schedules the thinking timer with the board passed
makeC4AIMove(s, currentBoard) ==
    [s EXCEPT !.timers = Append(@, C4Timer("c4AIThink", currentBoard, -1, -1))]

\* a handler that accepts a column before the match has started
handleC4ColumnClickUnstarted(s, col) ==
    LET targetRow == LowestEmptyRow(s.c4Board, col, C4Rows - 1)
    IN  IF s.c4CurrentPlayer # playerColor(s) \/ s.c4DroppingToken # NoToken
        THEN s
        ELSE IF targetRow = -1 THEN s
        ELSE IF s.opponentType = "player"
        THEN IF HasClient(s)
             THEN [s EXCEPT !.sent = Append(@, "move"),
                            !.c4CurrentPlayer = opponentColor(s)]
             ELSE s
        ELSE [s EXCEPT !.c4DroppingToken = [col |-> col, row |-> targetRow],
                       !.timers = Append(@, C4Timer("c4Drop", s.c4Board,
                                                    col, targetRow))]

\* handleC4ColumnClick (lines 768-832)
handleC4ColumnClick(s, col) ==
    LET targetRow == LowestEmptyRow(s.c4Board, col, C4Rows - 1)
    IN  IF ~s.started \/ s.c4CurrentPlayer # playerColor(s)
           \/ s.c4DroppingToken # NoToken
        THEN s
        ELSE IF targetRow = -1 THEN s
        ELSE IF s.opponentType = "player"
        THEN IF HasClient(s)
             THEN [s EXCEPT !.sent = Append(@, "move"),
                            !.c4CurrentPlayer = opponentColor(s)]
             ELSE s
        ELSE [s EXCEPT !.c4DroppingToken = [col |-> col, row |-> targetRow],
                       !.timers = Append(@, C4Timer("c4Drop", s.c4Board,
                                                    col, targetRow))]

\* a drop callback that leaves the token in the top row of its column
C4DropDoneTopRow(s, t) ==
    LET newBoard == [t.board EXCEPT ![t.col] = playerColor(s)]
        s1 == [s EXCEPT !.c4Board = newBoard, !.c4DroppingToken = NoToken]
    IN  IF checkC4Winner(newBoard) = playerColor(s)
        THEN handleGameEnd(s1, "player", HasClient(s))
        ELSE IF C4Full(newBoard) THEN scheduleC4Reset(s1)
        ELSE makeC4AIMove(
               resetTurnTimer([s1 EXCEPT !.c4CurrentPlayer = opponentColor(s)]),
               newBoard)

\* the 500ms callback of handleC4ColumnClick (lines 798-831)
C4DropDone(s, t) ==
    LET newBoard == [t.board EXCEPT ![t.row * C4Cols + t.col] = playerColor(s)]
        s1 == [s EXCEPT !.c4Board = newBoard, !.c4DroppingToken = NoToken]
    IN  IF checkC4Winner(newBoard) = playerColor(s)
        THEN handleGameEnd(s1, "player", HasClient(s))
        ELSE IF C4Full(newBoard) THEN scheduleC4Reset(s1)
        ELSE makeC4AIMove(
               resetTurnTimer([s1 EXCEPT !.c4CurrentPlayer = opponentColor(s)]),
               newBoard)

\* the columns makeC4AIMove draws from: those whose top cell is empty
availableCols(board) == {col \in 0..(C4Cols - 1) : board[col] = Null}

\* the 1000ms callback of makeC4AIMove (lines 835-864) choosing column aiCol
C4AIThinkDone(s, t, aiCol) ==
    LET targetRow == LowestEmptyRow(t.board, aiCol, C4Rows - 1)
    IN  IF targetRow = -1 THEN s
        ELSE [s EXCEPT !.c4DroppingToken = [col |-> aiCol, row |-> targetRow],
                       !.timers = Append(@, C4Timer("c4AIDrop", t.board,
                                                    aiCol, targetRow))]

\* the 500ms callback inside makeC4AIMove (lines 866-895)
C4AIDropDone(s, t) ==
    LET newBoard == [t.board EXCEPT ![t.row * C4Cols + t.col] = "yellow"]
        s1 == [s EXCEPT !.c4Board = newBoard, !.c4DroppingToken = NoToken]
    IN  IF checkC4Winner(newBoard) = "yellow"
        THEN handleGameEnd(s1, "opponent", HasClient(s))
        ELSE IF C4Full(newBoard) THEN scheduleC4Reset(s1)
        ELSE resetTurnTimer([s1 EXCEPT !.c4CurrentPlayer = "red"])

\* a reset that leaves the turn with the side that would move next
C4ResetDoneKeepsTurn(s) ==
    resetTurnTimer([s EXCEPT !.c4Board = EmptyC4, !.c4RoundCount = @ + 1])

\* the 2000ms callback of the full-board branch (lines 816-821, 884-889)
C4ResetDone(s) ==
    resetTurnTimer([s EXCEPT !.c4Board = EmptyC4, !.c4RoundCount = @ + 1,
                             !.c4CurrentPlayer = "red"])

-----------------------------------------------------------------------------
\* Rock-Paper-Scissors

\* a judge for which paper loses to rock
determineRPSWinnerRockFirst(player, opponent) ==
    IF player = Null \/ opponent = Null THEN "draw"
    ELSE IF player = opponent THEN "draw"
    ELSE IF \/ (player = "rock" /\ opponent = "scissors")
            \/ (player = "scissors" /\ opponent = "paper")
            \/ (player = "rock" /\ opponent = "paper")
    THEN "win"
    ELSE "lose"

determineRPSWinner(player, opponent) ==
    IF player = Null \/ opponent = Null THEN "draw"
    ELSE IF player = opponent THEN "draw"
    ELSE IF \/ (player = "rock" /\ opponent = "scissors")
            \/ (player = "scissors" /\ opponent = "paper")
            \/ (player = "paper" /\ opponent = "rock")
    THEN "win"
    ELSE "lose"

RpsTimer(kind, choice, opp, p, o, result) ==
    [kind |-> kind, choice |-> choice, opp |-> opp, p |-> p, o |-> o,
     result |-> result]

\* handleRPSChoice (lines 925-962)
handleRPSChoice(s, choice) ==
    IF s.rpsWaitingForOpponent \/ s.rpsRevealing \/ choice = Null THEN s
    ELSE LET s1 == [s EXCEPT !.rpsPlayerChoice = choice,
                             !.rpsWaitingForOpponent = TRUE]
         IN  IF s.opponentType = "player"
             THEN IF HasClient(s) THEN [s1 EXCEPT !.sent = Append(@, "choice")]
                  ELSE s1
             ELSE [s1 EXCEPT !.timers =
                     Append(@, RpsTimer("rpsAI", choice, Null, s.rpsPlayerScore,
                                        s.rpsOpponentScore, Null))]

\* the 1500ms callback (lines 935-939) with the AI drawing opponentChoice
RpsAIDone(s, t, opponentChoice) ==
    [s EXCEPT !.rpsOpponentChoice = opponentChoice, !.rpsRevealing = TRUE,
              !.timers = Append(@, RpsTimer("rpsReveal", t.choice,
                                            opponentChoice, t.p, t.o, Null))]

\* the 1000ms callback (lines 940-946): scores are computed from the values
\* captured by handleRPSChoice
RpsRevealDone(s, t) ==
    LET result == determineRPSWinner(t.choice, t.opp)
        newPlayerScore == IF result = "win" THEN t.p + 1 ELSE t.p
        newOpponentScore == IF result = "lose" THEN t.o + 1 ELSE t.o
        s1 == [s EXCEPT !.rpsRoundResult = result]
        s2 == IF result = "win" THEN [s1 EXCEPT !.rpsPlayerScore = newPlayerScore]
              ELSE IF result = "lose"
              THEN [s1 EXCEPT !.rpsOpponentScore = newOpponentScore]
              ELSE s1
    IN  [s2 EXCEPT !.timers = Append(@, RpsTimer("rpsAdvance", t.choice, t.opp,
                                                 newPlayerScore,
                                                 newOpponentScore, result))]

\* a round reset that also resets the phase
RpsNextRoundReopens(s) ==
    resetTurnTimer([s EXCEPT !.rpsCurrentRound = @ + 1,
                             !.rpsPlayerChoice = Null,
                             !.rpsOpponentChoice = Null,
                             !.rpsRoundResult = Null,
                             !.rpsRevealing = FALSE,
                             !.rpsWaitingForOpponent = FALSE,
                             !.gameState = "playing"])

\* a round reset that leaves the reveal gate raised
RpsNextRoundKeepsGate(s) ==
    resetTurnTimer([s EXCEPT !.rpsCurrentRound = @ + 1,
                             !.rpsPlayerChoice = Null,
                             !.rpsOpponentChoice = Null,
                             !.rpsRoundResult = Null,
                             !.rpsWaitingForOpponent = FALSE])

\* the round reset shared by the local and the multiplayer sequences
RpsNextRound(s) ==
    resetTurnTimer([s EXCEPT !.rpsCurrentRound = @ + 1,
                             !.rpsPlayerChoice = Null,
                             !.rpsOpponentChoice = Null,
                             !.rpsRoundResult = Null,
                             !.rpsRevealing = FALSE,
                             !.rpsWaitingForOpponent = FALSE])

\* the 2500ms callback (lines 947-959)
RpsAdvanceDone(s, t) ==
    IF t.p >= RpsTarget THEN handleGameEnd(s, "player", HasClient(s))
    ELSE IF t.o >= RpsTarget THEN handleGameEnd(s, "opponent", HasClient(s))
    ELSE RpsNextRound(s)

-----------------------------------------------------------------------------
\* Reconciliation layer: the callbacks given to createGameClient (lines 181-308).
\* They are created once, by the effect of the first render, and the effect
\* is not re-run when side or gameClient change (its dependencies are
\* matchId, opponentType, address, game.name), so inside them side and
\* gameClient have their first-render values.

StaleSide == Null
StaleClient == FALSE

\* a server timestamp as the whole seconds elapsed since it, or none
NoStamp == [has |-> FALSE, elapsed |-> 0]

\* Math.max(0, 30 - elapsed)
SyncedTime(elapsed) == IF TurnBudget - elapsed < 0 THEN 0 ELSE TurnBudget - elapsed

syncTimer(s, stamp) ==
    IF stamp.has THEN [s EXCEPT !.turnTime = SyncedTime(stamp.elapsed)] ELSE s

\* onOpponentMove (lines 182-202)
onOpponentMove(s, move) ==
    IF s.game = "TTT" THEN syncTimer(s, move.stamp)
    ELSE IF s.game = "C4" THEN syncTimer(s, move.stamp)
    ELSE s

\* a game_end handling that looks at the winner identity before the side
onGameEndIdentityFirst(s, data) ==
    IF data.isDraw THEN handleGameEnd(s, "draw", StaleClient)
    ELSE IF data.winner = "address" THEN handleGameEnd(s, "player", StaleClient)
    ELSE IF data.winnerSide # Null
    THEN [s EXCEPT !.pendingWinnerSide = data.winnerSide]
    ELSE handleGameEnd(s, "opponent", StaleClient)

\* onGameEnd (lines 203-220)
onGameEnd(s, data) ==
    IF data.isDraw THEN handleGameEnd(s, "draw", StaleClient)
    ELSE IF data.winnerSide # Null
    THEN IF StaleSide # Null
         THEN handleGameEnd(s, IF data.winnerSide = StaleSide THEN "player"
                               ELSE "opponent", StaleClient)
         ELSE [s EXCEPT !.pendingWinnerSide = data.winnerSide]
    ELSE IF data.winner = "address" THEN handleGameEnd(s, "player", StaleClient)
    ELSE handleGameEnd(s, "opponent", StaleClient)

\* onStart (lines 221-235)
onStart(s, data) ==
    LET s1 == IF data.side \in Sides THEN [s EXCEPT !.side = data.side] ELSE s
        s2 == [s1 EXCEPT !.tttCurrentPlayer = IF data.current = "a" THEN "X" ELSE "O",
                         !.c4CurrentPlayer = IF data.current = "a" THEN "red"
                                             ELSE "yellow",
                         !.started = TRUE]
    IN  IF data.stamp.has THEN syncTimer(s2, data.stamp) ELSE resetTurnTimer(s2)

\* the cells of a set in ascending order (Array.prototype.sort on indices 0..8)
RECURSIVE SortedCells(_)
SortedCells(S) ==
    IF S = {} THEN << >>
    ELSE LET m == CHOOSE x \in S : \A y \in S : x <= y
         IN  << m >> \o SortedCells(S \ {m})

\* a state handler that keeps the locally predicted turn owner
onStateKeepsTurn(s, data) ==
    LET mine == SymbolOf(StaleSide, s.role)
        theirs == IF mine = "X" THEN "O" ELSE "X"
        s1 == IF s.game = "TTT"
              THEN [s EXCEPT !.tttBoard = data.board,
                             !.playerMoves =
                                SortedCells({i \in TTTCells : data.board[i] = mine}),
                             !.opponentMoves =
                                SortedCells({i \in TTTCells : data.board[i] = theirs}),
                             !.fadingCell = NoCell]
              ELSE IF s.game = "C4"
              THEN [s EXCEPT !.c4Board = data.board,
                             !.c4DroppingToken = NoToken]
              ELSE s
    IN  [syncTimer(s1, data.stamp) EXCEPT !.started = TRUE]

\* onState (lines 236-265)
onState(s, data) ==
    LET mine == SymbolOf(StaleSide, s.role)
        theirs == IF mine = "X" THEN "O" ELSE "X"
        s1 == IF s.game = "TTT"
              THEN [s EXCEPT !.tttBoard = data.board,
                             !.playerMoves =
                                SortedCells({i \in TTTCells : data.board[i] = mine}),
                             !.opponentMoves =
                                SortedCells({i \in TTTCells : data.board[i] = theirs}),
                             !.fadingCell = NoCell,
                             !.tttCurrentPlayer = IF data.current = "a" THEN "X"
                                                  ELSE "O"]
              ELSE IF s.game = "C4"
              THEN [s EXCEPT !.c4Board = data.board,
                             !.c4DroppingToken = NoToken,
                             !.c4CurrentPlayer = IF data.current = "a" THEN "red"
                                                 ELSE "yellow"]
              ELSE s
    IN  [syncTimer(s1, data.stamp) EXCEPT !.started = TRUE]

\* null of pendingRpsReveal
NoReveal == [aChoice |-> Null, bChoice |-> Null, winnerSide |-> Null]

\* the reveal sequence common to onRpsReveal (lines 271-297) and to the
\* pendingRpsReveal effect (lines 335-359), for a known side
revealRound(s, data, mySide) ==
    LET result == IF data.winnerSide = Null THEN "draw"
                  ELSE IF data.winnerSide = mySide THEN "win"
                  ELSE "lose"
    IN  [s EXCEPT !.rpsPlayerChoice = IF mySide = "a" THEN data.aChoice
                                      ELSE data.bChoice,
                  !.rpsOpponentChoice = IF mySide = "a" THEN data.bChoice
                                        ELSE data.aChoice,
                  !.rpsRevealing = TRUE,
                  !.rpsWaitingForOpponent = FALSE,
                  !.timers = Append(@, RpsTimer("netReveal", Null, Null, 0, 0,
                                                result))]

\* onRpsReveal (lines 266-298)
onRpsReveal(s, data) ==
    IF s.game # "RPS" THEN s
    ELSE IF StaleSide = Null THEN [s EXCEPT !.pendingRpsReveal = data]
    ELSE revealRound(s, data, StaleSide)

\* the 800ms callback of the reveal sequence: functional score updates
NetRevealDone(s, t) ==
    LET s1 == [s EXCEPT !.rpsRoundResult = t.result]
        s2 == IF t.result = "win" THEN [s1 EXCEPT !.rpsPlayerScore = @ + 1]
              ELSE IF t.result = "lose" THEN [s1 EXCEPT !.rpsOpponentScore = @ + 1]
              ELSE s1
    IN  [s2 EXCEPT !.timers = Append(@, RpsTimer("netAdvance", Null, Null, 0, 0,
                                                 t.result))]

\* the 1500ms callback of the reveal sequence
NetAdvanceDone(s) == RpsNextRound(s)

\* a forfeit that ends the session without telling the server
handleForfeitSilent(s) == handleGameEnd(s, "opponent", HasClient(s))

\* handleForfeit (lines 964-969)
handleForfeit(s) ==
    handleGameEnd(IF HasClient(s) THEN [s EXCEPT !.sent = Append(@, "forfeit")]
                  ELSE s,
                  "opponent", HasClient(s))

-----------------------------------------------------------------------------
\* Effects run after a handler's render (lines 324-361) and the closure of
\* the turn-timer effect (lines 367-398)

\* a component without the reactive re-check of the buffered outcome
resolvePendingWinnerDropped(render, s) == s

\* the pendingWinnerSide effect
resolvePendingWinner(render, s) ==
    IF render.gameState = "playing" /\ render.pendingWinnerSide # Null
       /\ render.side # Null
    THEN [handleGameEnd(s, IF render.pendingWinnerSide = render.side
                           THEN "player" ELSE "opponent", HasClient(render))
            EXCEPT !.pendingWinnerSide = Null]
    ELSE s

\* the pendingRpsReveal effect
resolvePendingReveal(render, s) ==
    IF render.game = "RPS" /\ render.side # Null
       /\ render.pendingRpsReveal # NoReveal /\ render.gameState = "playing"
    THEN [revealRound(s, render.pendingRpsReveal, render.side)
            EXCEPT !.pendingRpsReveal = NoReveal]
    ELSE s

\* the turn-timer effect is re-created, and so re-captures handleGameEnd and
\* with it gameClient, only when one of its dependencies changed
timerDepsChanged(prev, s) ==
    \/ prev.gameState # s.gameState
    \/ prev.tttCurrentPlayer # s.tttCurrentPlayer
    \/ prev.c4CurrentPlayer # s.c4CurrentPlayer
    \/ prev.fadingCell # s.fadingCell
    \/ prev.c4DroppingToken # s.c4DroppingToken
    \/ prev.rpsWaitingForOpponent # s.rpsWaitingForOpponent
    \/ prev.rpsRevealing # s.rpsRevealing

\* both effects of one commit read the same render; the state they set is
\* rendered again, after which neither condition holds
Effects(prev, render) ==
    LET s1 == resolvePendingWinner(render, render)
        s2 == resolvePendingReveal(render, s1)
    IN  IF timerDepsChanged(prev, s2)
        THEN [s2 EXCEPT !.timerClient = HasClient(s2)]
        ELSE s2

-----------------------------------------------------------------------------
\* handleGameEnd after its await (lines 440-465): the submission settles,
\* then on success three spaced balance refreshes, then the socket is closed
\* if the closure had a client

Retries == 3

RemoveAt(seq, i) == SubSeq(seq, 1, i - 1) \o SubSeq(seq, i + 1, Len(seq))

\* the end of handleGameEnd (lines 462-465)
endFinished(s, i) ==
    LET e == s.asyncEnds[i]
        s1 == [s EXCEPT !.asyncEnds = RemoveAt(@, i)]
    IN  IF e.client THEN CloseSocket(s1) ELSE s1

\* submitMatchResult resolves (ok) or rejects: a rejection skips the refresh
\* loop and goes to the catch block, then to the end of the function
submitSettled(s, i, ok) ==
    IF ok THEN [s EXCEPT !.asyncEnds[i].stage = 1] ELSE endFinished(s, i)

\* the refresh loop (lines 452-456) run to its end: nothing else of the
\* session is read or written between its rounds
refreshDone(s, i) == endFinished([s EXCEPT !.refreshes = @ + Retries], i)

-----------------------------------------------------------------------------
\* Turn clock: one run of the interval callback (lines 370-394)

\* the gates without the piece-decay fade
GateActiveNoFade(s) ==
    \/ s.c4DroppingToken # NoToken
    \/ s.rpsWaitingForOpponent
    \/ s.rpsRevealing

GateActive(s) ==
    \/ s.fadingCell # NoCell
    \/ s.c4DroppingToken # NoToken
    \/ s.rpsWaitingForOpponent
    \/ s.rpsRevealing

\* the effect installs no interval in these states (line 368)
ClockStopped(s) == s.gameState = "finished" \/ GateActive(s)

\* the winner the expiry branch passes to handleGameEnd (lines 375-390)
expiryWinner(s) ==
    IF s.game = "TTT"
    THEN (IF s.tttCurrentPlayer = "X" THEN "opponent" ELSE "player")
    ELSE IF s.game = "C4"
    THEN (IF s.c4CurrentPlayer = "red" THEN "opponent" ELSE "player")
    ELSE "opponent"

tick(s) ==
    IF s.turnTime <= 1
    THEN [handleGameEnd(s, expiryWinner(s), s.timerClient) EXCEPT !.turnTime = 0]
    ELSE [s EXCEPT !.turnTime = @ - 1]

-----------------------------------------------------------------------------
\* Exploration profiles.  scope "board" explores the moves of a game in full
\* and the clock only near its ends; scope "clock" explores the whole
\* countdown and few moves; scope "net" explores inbound transport events;
\* scope "reveal" explores longer runs of events of multiplayer
\* Rock-Paper-Scissors.

StepLimit(s) ==
    IF s.scope = "clock" THEN MaxClockMoves
    ELSE IF s.scope = "net" THEN MaxEvents
    ELSE IF s.scope = "reveal" THEN MaxRpsEvents
    ELSE IF s.game = "C4" THEN MaxDrops
    ELSE IF s.game = "RPS" THEN MaxRounds
    ELSE -1

CanStep(s) == StepLimit(s) < 0 \/ s.steps < StepLimit(s)

Counted(s) == IF StepLimit(s) < 0 THEN s ELSE [s EXCEPT !.steps = @ + 1]

CanInput(s) == s.mounted /\ (s.scope \in {"net", "reveal"} \/ CanStep(s))

\* a local input in the net profile is not counted: after it the handlers
\* ignore further input until the server answers
CountedInput(s) == IF s.scope \in {"net", "reveal"} THEN s ELSE Counted(s)

TickExplored(s) ==
    \/ s.scope = "clock"
    \/ s.turnTime > TurnBudget - MaxIdleTicks
    \/ s.turnTime <= 1

\* a handler's result after the effects it triggers, tagged with the handler
Done(prev, r, name, arg) == Mark(Effects(prev, r), name, arg)

\* a local input: counted when the handler accepted it; an input the handler
\* ignores leaves the state as it is
Input(prev, r, name, arg) ==
    IF r = prev THEN prev
    ELSE Done(prev, CountedInput(r), name, arg)

-----------------------------------------------------------------------------
\* Inputs of the transport channel

\* elapsed seconds of the timestamps explored: a server clock ahead of the
\* local one, a turn about to expire, a turn already over
ElapsedValues == {-2, 29, 31}
Stamps == {NoStamp} \cup {[has |-> TRUE, elapsed |-> e] : e \in ElapsedValues}

TTTBoardOf(xs, os) ==
    [i \in TTTCells |-> IF i \in xs THEN "X" ELSE IF i \in os THEN "O" ELSE Null]

TTTSnapshots ==
    { TTTBoardOf({4}, {}), TTTBoardOf({2, 4, 7}, {0, 1, 8}) }

\* the board after the columns of drops were played in turn, red first
RECURSIVE Replay(_, _, _)
Replay(board, drops, k) ==
    IF k > Len(drops) THEN board
    ELSE LET col == drops[k]
             row == LowestEmptyRow(board, col, C4Rows - 1)
         IN  Replay([board EXCEPT ![row * C4Cols + col] =
                        IF k % 2 = 1 THEN "red" ELSE "yellow"], drops, k + 1)

C4Snapshots ==
    { Replay(EmptyC4, << 3 >>, 1), Replay(EmptyC4, << 3, 3, 4 >>, 1) }

\* a game of alternating legal drops without a line of four that leaves
\* two cells empty: the start of the full-board exploration
C4LongGame ==
    << 5, 3, 2, 3, 1, 5, 3, 1, 0, 1, 4, 1, 2, 5, 0, 5, 6, 6, 2, 0, 6, 0, 4,
       2, 3, 0, 3, 4, 2, 3, 2, 6, 0, 4, 1, 1, 5, 4, 4, 5 >>

C4NearFull == Replay(EmptyC4, C4LongGame, 1)

GameEndInputs ==
    { [isDraw |-> TRUE, winnerSide |-> Null, winner |-> Null],
      [isDraw |-> FALSE, winnerSide |-> "a", winner |-> Null],
      [isDraw |-> FALSE, winnerSide |-> "b", winner |-> Null],
      [isDraw |-> FALSE, winnerSide |-> Null, winner |-> "address"],
      [isDraw |-> FALSE, winnerSide |-> Null, winner |-> "other"] }

\* the winning side the server reports for a pair of choices
RevealWinner(a, b) ==
    IF determineRPSWinner(a, b) = "win" THEN "a"
    ELSE IF determineRPSWinner(a, b) = "lose" THEN "b"
    ELSE Null

RevealInputs ==
    { [aChoice |-> a, bChoice |-> b, winnerSide |-> RevealWinner(a, b)] :
        a \in Choices, b \in Choices }

\* The cells the local player clicks in the board profile (the AI draws from
\* every empty cell): the top row, a column and a diagonal through it.  With
\* them the game is explored to any depth.
PlayerCells == {0, 1, 2, 4, 6}

ClickCells(s) == IF s.scope = "board" THEN PlayerCells ELSE TTTCells

-----------------------------------------------------------------------------
\* Actions: local input

\* the states in which the cell buttons are disabled (line 1056)
TTTButtonDisabled(s) ==
    \/ s.gameState = "finished" \/ ~s.started
    \/ s.tttCurrentPlayer # playerSymbol(s)
    \/ s.fadingCell # NoCell

\* a click on cell index as the page handles it
pressTTTCell(s, index) ==
    IF TTTButtonDisabled(s) THEN s ELSE handleTTTCellClick(s, index)

\* the states in which the column buttons are disabled (line 1119)
C4ButtonDisabled(s) ==
    \/ s.gameState = "finished"
    \/ s.c4CurrentPlayer # playerColor(s)
    \/ s.c4DroppingToken # NoToken

\* a click on column col as the page handles it
pressC4Column(s, col) ==
    IF C4ButtonDisabled(s) THEN s ELSE handleC4ColumnClick(s, col)

\* choice buttons that stay enabled after the end of the session
RPSButtonDisabledInGatesOnly(s) == s.rpsWaitingForOpponent \/ s.rpsRevealing

\* the choice buttons are rendered only outside the gates (line 1310) and
\* disabled once finished (line 1318)
RPSButtonDisabled(s) ==
    \/ s.gameState = "finished"
    \/ s.rpsWaitingForOpponent \/ s.rpsRevealing

\* a press of a choice button as the page handles it
pressRPSChoice(s, choice) ==
    IF RPSButtonDisabled(s) THEN s ELSE handleRPSChoice(s, choice)

ClickTTTCell ==
    \E index \in ClickCells(State) :
        /\ game = "TTT" /\ CanInput(State)
        /\ Commit(Input(State, pressTTTCell(State, index), "tttClick", "cell"))

ClickC4Column ==
    \E col \in 0..(C4Cols - 1) :
        /\ game = "C4" /\ CanInput(State)
        /\ Commit(Input(State, pressC4Column(State, col), "c4Click", "column"))

ChooseRPS ==
    \E choice \in Choices :
        /\ game = "RPS" /\ CanInput(State)
        /\ Commit(Input(State, pressRPSChoice(State, choice), "rpsChoice", choice))

\* the forfeit button (rendered while playing, line 1406) and its confirmation
Forfeit ==
    /\ mounted /\ gameState = "playing"
    /\ scope # "fn"
    /\ Commit(Done(State, handleForfeit(State), "forfeit", Null))

-----------------------------------------------------------------------------
\* Actions: timers

Tick ==
    /\ mounted /\ scope # "fn"
    /\ ~ClockStopped(State)
    /\ TickExplored(State)
    /\ Commit(Done(State, tick(State), "tick", Null))

\* the state with timer i taken off the pending list
Fired(i) == [State EXCEPT !.timers = RemoveAt(@, i)]

PlayerFadeTimer ==
    \E i \in DOMAIN timers :
        /\ timers[i].kind = "playerFade"
        /\ Commit(Done(State, PlayerFadeDone(Fired(i), timers[i]), "playerFade", Null))

AIThinkTimer ==
    \E i \in DOMAIN timers :
        /\ timers[i].kind = "aiThink"
        /\ LET emptySpots == {c \in TTTCells : timers[i].board[c] = Null}
           IN  IF emptySpots = {}
               THEN Commit(Done(State, Fired(i), "aiThink", Null))
               ELSE \E aiMove \in emptySpots :
                      Commit(Done(State, AIThinkDone(Fired(i), timers[i], aiMove),
                                  "aiThink", Null))

AIFadeTimer ==
    \E i \in DOMAIN timers :
        /\ timers[i].kind = "aiFade"
        /\ Commit(Done(State, AIFadeDone(Fired(i), timers[i]), "aiFade", Null))

C4DropTimer ==
    \E i \in DOMAIN timers :
        /\ timers[i].kind = "c4Drop"
        /\ Commit(Done(State, C4DropDone(Fired(i), timers[i]), "c4Drop", Null))

C4AIThinkTimer ==
    \E i \in DOMAIN timers :
        /\ timers[i].kind = "c4AIThink"
        /\ IF availableCols(timers[i].board) = {}
           THEN Commit(Done(State, Fired(i), "c4AIThink", Null))
           ELSE \E aiCol \in availableCols(timers[i].board) :
                  Commit(Done(State, C4AIThinkDone(Fired(i), timers[i], aiCol),
                              "c4AIThink", Null))

C4AIDropTimer ==
    \E i \in DOMAIN timers :
        /\ timers[i].kind = "c4AIDrop"
        /\ Commit(Done(State, C4AIDropDone(Fired(i), timers[i]), "c4AIDrop", Null))

C4ResetTimer ==
    \E i \in DOMAIN timers :
        /\ timers[i].kind = "c4Reset"
        /\ Commit(Done(State, C4ResetDone(Fired(i)), "c4Reset", Null))

RpsAITimer ==
    \E i \in DOMAIN timers, opponentChoice \in Choices :
        /\ timers[i].kind = "rpsAI"
        /\ Commit(Done(State, RpsAIDone(Fired(i), timers[i], opponentChoice),
                       "rpsAI", Null))

RpsRevealTimer ==
    \E i \in DOMAIN timers :
        /\ timers[i].kind = "rpsReveal"
        /\ Commit(Done(State, RpsRevealDone(Fired(i), timers[i]), "rpsReveal", Null))

RpsAdvanceTimer ==
    \E i \in DOMAIN timers :
        /\ timers[i].kind = "rpsAdvance"
        /\ Commit(Done(State, RpsAdvanceDone(Fired(i), timers[i]), "rpsAdvance", Null))

NetRevealTimer ==
    \E i \in DOMAIN timers :
        /\ timers[i].kind = "netReveal"
        /\ Commit(Done(State, NetRevealDone(Fired(i), timers[i]), "netReveal", Null))

NetAdvanceTimer ==
    \E i \in DOMAIN timers :
        /\ timers[i].kind = "netAdvance"
        /\ Commit(Done(State, NetAdvanceDone(Fired(i)), "netAdvance", Null))

-----------------------------------------------------------------------------
\* Actions: transport messages (delivered while the socket is open) and the
\* settlement of a submission

Receiving == opponentType = "player" /\ wsOpen /\ CanStep(State)

RecvStart ==
    \E sd \in Sides \cup {Null}, current \in Sides, stamp \in Stamps :
        /\ Receiving
        /\ Commit(Done(State,
                       Counted(onStart(State, [side |-> sd, current |-> current,
                                               stamp |-> stamp])),
                       "start", Null))

RecvState ==
    \E current \in Sides, stamp \in Stamps :
        /\ Receiving
        /\ game # "RPS"
        /\ \E board \in IF game = "TTT" THEN TTTSnapshots ELSE C4Snapshots :
              Commit(Done(State,
                          Counted(onState(State, [board |-> board,
                                                  current |-> current,
                                                  stamp |-> stamp])),
                          "state", Null))

RecvOpponentMove ==
    \E stamp \in Stamps :
        /\ Receiving
        /\ Commit(Done(State, Counted(onOpponentMove(State, [stamp |-> stamp])),
                       "opponent_move", Null))

RecvGameEnd ==
    \E data \in GameEndInputs :
        /\ Receiving
        /\ Commit(Done(State, Counted(onGameEnd(State, data)), "game_end",
                       IF data.isDraw THEN "draw"
                       ELSE IF data.winnerSide # Null THEN data.winnerSide
                       ELSE data.winner))

RecvRpsReveal ==
    \E data \in RevealInputs :
        /\ Receiving
        /\ game = "RPS"
        /\ Commit(Done(State, Counted(onRpsReveal(State, data)), "rps_reveal",
                       Null))

\* the reveal of a round delivered after the sequence of the round before has
\* run to its end, as a server that waits for both choices sends it
RecvRoundReveal ==
    \E data \in RevealInputs :
        /\ Receiving
        /\ game = "RPS" /\ scope = "reveal"
        /\ timers = << >> /\ pendingRpsReveal = NoReveal
        /\ Commit(Done(State, Counted(onRpsReveal(State, data)), "rps_reveal",
                       Null))

SubmitSettled ==
    \E i \in DOMAIN asyncEnds, ok \in BOOLEAN :
        /\ asyncEnds[i].stage = 0
        /\ Commit(Done(State, submitSettled(State, i, ok), "submitSettled",
                       IF ok THEN "ok" ELSE "failed"))

RefreshDone ==
    \E i \in DOMAIN asyncEnds :
        /\ asyncEnds[i].stage = 1
        /\ Commit(Done(State, refreshDone(State, i), "refresh", Null))

\* teardown of the page: the cleanup of the WebSocket effect closes the
\* client the effect created (lines 317-321); the cleanup of the clock effect
\* clears the interval (line 397); the page takes no input any more
unmount(s) ==
    [(IF s.opponentType = "player" THEN CloseSocket(s) ELSE s)
        EXCEPT !.mounted = FALSE]

Unmount ==
    /\ mounted /\ scope # "fn"
    /\ Commit(Mark(unmount(State), "unmount", Null))

-----------------------------------------------------------------------------
\* Initial states: the state after the first render and the mount effects
\* (useState initialisers, lines 103-155), for the props of a session

Stakes == {10}
PlayModes == {"free", "stake"}

NoProbe == [orig |-> Null, swapped |-> Null]

InitWith(g, ot, sc, modes, board9, board42) ==
    /\ game = g /\ opponentType = ot /\ scope = sc
    /\ role \in (IF ot = "player" THEN {"p1", "p2"} ELSE {"p1"})
    /\ \E pm \in modes :
          /\ playMode = pm
          /\ stakeAmount \in (IF pm = "stake" THEN Stakes ELSE {0})
    /\ turnTime = TurnBudget /\ gameState = "playing" /\ winner = Null
    /\ earnedARK = 0 /\ earnedXP = 0
    /\ started = (ot # "player")
    /\ pendingWinnerSide = Null /\ side = Null
    /\ tttBoard = board9 /\ tttCurrentPlayer = "X"
    /\ playerMoves = << >> /\ opponentMoves = << >> /\ fadingCell = NoCell
    /\ c4Board = board42 /\ c4CurrentPlayer = "red"
    /\ c4DroppingToken = NoToken /\ c4RoundCount = 1
    /\ rpsPlayerChoice = Null /\ rpsOpponentChoice = Null
    /\ rpsPlayerScore = 0 /\ rpsOpponentScore = 0 /\ rpsCurrentRound = 1
    /\ rpsRoundResult = Null /\ rpsRevealing = FALSE
    /\ rpsWaitingForOpponent = FALSE /\ pendingRpsReveal = NoReveal
    /\ timers = << >>
    /\ wsOpen = (ot = "player") /\ timerClient = FALSE
    /\ sent = << >> /\ asyncEnds = << >> /\ lastSubmit = Null
    /\ endCalls = 0 /\ xpAdds = 0 /\ submits = 0 /\ closes = 0 /\ refreshes = 0
    /\ steps = 0 /\ lastEvent = [name |-> "mount", arg |-> Null]
    /\ probe = NoProbe /\ mounted = TRUE

\* local Tic-Tac-Toe against the AI
InitTTT == InitWith("TTT", "ai", "board", {"stake"}, EmptyTTT, EmptyC4)

\* local Connect Four against the AI, from the empty board and from the
\* position that the drops of C4LongGame reach
InitC4 ==
    \E b \in {EmptyC4, C4NearFull} : InitWith("C4", "ai", "board", {"stake"}, EmptyTTT, b)

\* local Rock-Paper-Scissors against the AI
InitRPS == InitWith("RPS", "ai", "board", PlayModes, EmptyTTT, EmptyC4)

\* multiplayer sessions of the three games
InitNet ==
    \E g \in {"TTT", "C4", "RPS"} : InitWith(g, "player", "net", {"stake"}, EmptyTTT, EmptyC4)

\* every game and mode with the whole countdown explored
InitClock ==
    \E g \in {"TTT", "C4", "RPS"}, ot \in {"ai", "player"} :
        InitWith(g, ot, "clock", {"stake"}, EmptyTTT, EmptyC4)

Init == InitTTT \/ InitC4 \/ InitRPS \/ InitNet \/ InitClock

NextTTT ==
    \/ ClickTTTCell \/ PlayerFadeTimer \/ AIThinkTimer \/ AIFadeTimer
    \/ Tick \/ Forfeit

NextC4 ==
    \/ ClickC4Column \/ C4DropTimer \/ C4AIThinkTimer \/ C4AIDropTimer
    \/ C4ResetTimer \/ Tick \/ Forfeit

NextRPS ==
    \/ ChooseRPS \/ RpsAITimer \/ RpsRevealTimer \/ RpsAdvanceTimer
    \/ Tick \/ Forfeit

NextNet ==
    \/ ClickTTTCell \/ ClickC4Column \/ ChooseRPS
    \/ RecvStart \/ RecvState \/ RecvOpponentMove \/ RecvGameEnd
    \/ RecvRpsReveal \/ NetRevealTimer \/ NetAdvanceTimer
    \/ SubmitSettled \/ RefreshDone
    \/ Tick \/ Forfeit

Next ==
    \/ ClickTTTCell \/ PlayerFadeTimer \/ AIThinkTimer \/ AIFadeTimer
    \/ ClickC4Column \/ C4DropTimer \/ C4AIThinkTimer \/ C4AIDropTimer
    \/ C4ResetTimer
    \/ ChooseRPS \/ RpsAITimer \/ RpsRevealTimer \/ RpsAdvanceTimer
    \/ RecvStart \/ RecvState \/ RecvOpponentMove \/ RecvGameEnd
    \/ RecvRpsReveal \/ NetRevealTimer \/ NetAdvanceTimer
    \/ SubmitSettled \/ RefreshDone
    \/ Tick \/ Forfeit

\* every profile
Spec == Init /\ [][Next]_vars

SpecTTT == InitTTT /\ [][NextTTT]_vars

SpecC4 == InitC4 /\ [][NextC4]_vars

SpecRPS == InitRPS /\ [][NextRPS]_vars

SpecNet == InitNet /\ [][NextNet]_vars

NextClock ==
    \/ ClickTTTCell \/ AIThinkTimer
    \/ ClickC4Column \/ C4DropTimer \/ C4AIThinkTimer \/ C4AIDropTimer
    \/ ChooseRPS \/ RpsAITimer \/ RpsRevealTimer \/ RpsAdvanceTimer
    \/ RecvStart \/ RecvState \/ RecvOpponentMove \/ RecvGameEnd
    \/ RecvRpsReveal
    \/ SubmitSettled \/ RefreshDone
    \/ Tick \/ Forfeit

\* the clock profile of every game and mode
SpecClock == InitClock /\ [][NextClock]_vars

\* multiplayer Tic-Tac-Toe in free play and with a stake: every outcome
\* (Win, Loss, Draw) in both play modes
InitReward == InitWith("TTT", "player", "net", PlayModes, EmptyTTT, EmptyC4)

NextReward ==
    \/ ClickTTTCell
    \/ RecvStart \/ RecvState \/ RecvOpponentMove \/ RecvGameEnd
    \/ SubmitSettled \/ RefreshDone
    \/ Tick \/ Forfeit

SpecReward == InitReward /\ [][NextReward]_vars

\* the local sessions of the three games, with every scheduled setTimeout
\* callback eventually run (the browser runs a due callback of a mounted page)
InitLocal == InitTTT \/ InitC4 \/ InitRPS

NextLocal ==
    \/ ClickTTTCell \/ PlayerFadeTimer \/ AIThinkTimer \/ AIFadeTimer
    \/ ClickC4Column \/ C4DropTimer \/ C4AIThinkTimer \/ C4AIDropTimer
    \/ C4ResetTimer
    \/ ChooseRPS \/ RpsAITimer \/ RpsRevealTimer \/ RpsAdvanceTimer
    \/ Tick \/ Forfeit

\* some pending callback runs
TimerFires ==
    \/ PlayerFadeTimer \/ AIThinkTimer \/ AIFadeTimer
    \/ C4DropTimer \/ C4AIThinkTimer \/ C4AIDropTimer \/ C4ResetTimer
    \/ RpsAITimer \/ RpsRevealTimer \/ RpsAdvanceTimer

\* while a callback is pending, one eventually runs: weak fairness of
\* TimerFires, which is enabled exactly when a callback is pending
TimersFire == []<>(timers = << >>) \/ []<><<TimerFires>>_vars

SpecLocalFair == InitLocal /\ [][NextLocal]_vars /\ TimersFire

\* the sessions of SpecReward with the teardown of the page at any moment
NextTeardown == NextReward \/ Unmount

SpecTeardown == InitReward /\ [][NextTeardown]_vars

\* multiplayer Rock-Paper-Scissors with enough events for a score of 5, from
\* the state in which start{side, current: a} without timestamp has been
\* processed (onStart, lines 221-235)
InitReveal ==
    \E sd \in Sides :
        /\ game = "RPS" /\ opponentType = "player" /\ scope = "reveal"
        /\ role = (IF sd = "a" THEN "p1" ELSE "p2")
        /\ playMode = "stake" /\ stakeAmount \in Stakes
        /\ turnTime = TurnBudget /\ gameState = "playing" /\ winner = Null
        /\ earnedARK = 0 /\ earnedXP = 0
        /\ started = TRUE
        /\ pendingWinnerSide = Null /\ side = sd
        /\ tttBoard = EmptyTTT /\ tttCurrentPlayer = "X"
        /\ playerMoves = << >> /\ opponentMoves = << >> /\ fadingCell = NoCell
        /\ c4Board = EmptyC4 /\ c4CurrentPlayer = "red"
        /\ c4DroppingToken = NoToken /\ c4RoundCount = 1
        /\ rpsPlayerChoice = Null /\ rpsOpponentChoice = Null
        /\ rpsPlayerScore = 0 /\ rpsOpponentScore = 0 /\ rpsCurrentRound = 1
        /\ rpsRoundResult = Null /\ rpsRevealing = FALSE
        /\ rpsWaitingForOpponent = FALSE /\ pendingRpsReveal = NoReveal
        /\ timers = << >>
        /\ wsOpen = TRUE /\ timerClient = FALSE
        /\ sent = << >> /\ asyncEnds = << >> /\ lastSubmit = Null
        /\ endCalls = 0 /\ xpAdds = 0 /\ submits = 0 /\ closes = 0
        /\ refreshes = 0
        /\ steps = 0 /\ lastEvent = [name |-> "start", arg |-> Null]
        /\ probe = NoProbe /\ mounted = TRUE

NextReveal ==
    \/ ChooseRPS
    \/ RecvRoundReveal
    \/ NetRevealTimer \/ NetAdvanceTimer
    \/ SubmitSettled \/ RefreshDone
    \/ Tick \/ Forfeit

SpecReveal == InitReveal /\ [][NextReveal]_vars

-----------------------------------------------------------------------------
\* Win detection as a function of the board: every 9-cell board is an input

SwapMarks(squares) ==
    [i \in TTTCells |-> IF squares[i] = "X" THEN "O"
                        ELSE IF squares[i] = "O" THEN "X" ELSE Null]

InitWin ==
    \E b \in [TTTCells -> {Null, "X", "O"}] :
        InitWith("TTT", "ai", "fn", {"free"}, b, EmptyC4)

\* checkTTTWinner applied to the board and to the board with the marks swapped
CheckWinner ==
    /\ scope = "fn" /\ probe = NoProbe
    /\ Commit(Mark([State EXCEPT !.probe =
                       [orig |-> checkTTTWinner(tttBoard),
                        swapped |-> checkTTTWinner(SwapMarks(tttBoard))]],
                    "checkTTTWinner", Null))

SpecWin == InitWin /\ [][CheckWinner]_vars

-----------------------------------------------------------------------------
\* Connect Four win detection as a function of the board.  The boards are
\* four cells of one colour at equal index distance 1, 6, 7 or 8 (the lines
\* inside the grid and the runs that wrap around an edge), with one more
\* cell set to a colour or emptied.

InitC4Win ==
    \E start \in C4Cells, step \in {1, C4Cols - 1, C4Cols, C4Cols + 1},
       colour \in {"red", "yellow"},
       extra \in C4Cells, other \in {Null, "red", "yellow"} :
        /\ start + 3 * step < C4Rows * C4Cols
        /\ LET run == {start + k * step : k \in 0..3}
               b == [i \in C4Cells |-> IF i = extra THEN other
                                       ELSE IF i \in run THEN colour
                                       ELSE Null]
           IN  InitWith("C4", "ai", "fn", {"free"}, EmptyTTT, b)

\* checkC4Winner applied to the board
CheckC4Winner ==
    /\ scope = "fn" /\ game = "C4" /\ lastEvent.name = "mount"
    /\ Commit(Mark([State EXCEPT !.probe =
                       [orig |-> checkC4Winner(c4Board), swapped |-> Null]],
                    "checkC4Winner", Null))

SpecC4Win == InitC4Win /\ [][CheckC4Winner]_vars

-----------------------------------------------------------------------------
\* Properties

\* the local participant's side owns the turn (in Rock-Paper-Scissors the
\* clock runs only while the local choice is awaited)
LocalOnClock ==
    IF game = "TTT" THEN tttCurrentPlayer = playerSymbol(State)
    ELSE IF game = "C4" THEN c4CurrentPlayer = playerColor(State)
    ELSE TRUE

TurnOwnerChanged ==
    \/ game = "TTT" /\ tttCurrentPlayer' # tttCurrentPlayer
    \/ game = "C4" /\ c4CurrentPlayer' # c4CurrentPlayer
    \/ game = "RPS" /\ rpsCurrentRound' # rpsCurrentRound

Marks(sym) == {i \in TTTCells : tttBoard[i] = sym}

\* C1: once the session phase is Finished it never returns to Playing,
\* whatever handler runs afterwards.
C1_PhaseNeverReverts ==
    [][gameState = "finished" => gameState' = "finished"]_vars

\* a handler that ran after the session had finished
C1_Witness ==
    /\ gameState = "finished"
    /\ lastEvent.name \in {"state", "c4Reset", "netAdvance", "rpsReveal"}

\* C2: after the session is Finished with an outcome, no later event changes
\* the recorded winner, xpDelta or arkDelta.
C2_OutcomeImmutable ==
    [][gameState = "finished" =>
          /\ winner' = winner
          /\ earnedXP' = earnedXP
          /\ earnedARK' = earnedARK]_vars

\* C3: a game_end naming the winning side w is resolved against the assigned
\* side s whichever of game_end and start arrives first while the session is
\* Playing: the step that makes both known finishes the session with Win when
\* w = s and Loss otherwise, and no buffered outcome stays unresolved in a
\* Playing session whose side is known.
C3_BufferedEndResolved ==
    [][ /\ (pendingWinnerSide # Null /\ side = Null /\ side' # Null
            /\ gameState = "playing")
           => /\ gameState' = "finished"
              /\ winner' = IF pendingWinnerSide = side' THEN "player"
                           ELSE "opponent"
              /\ pendingWinnerSide' = Null
        /\ (side # Null /\ gameState = "playing" /\ steps' # steps
            /\ lastEvent'.name = "game_end" /\ lastEvent'.arg \in Sides)
           => /\ gameState' = "finished"
              /\ winner' = IF lastEvent'.arg = side THEN "player"
                           ELSE "opponent"
        /\ (pendingWinnerSide' # Null /\ gameState' = "playing")
           => side' = Null ]_vars

\* game_end{winnerSide: a} was buffered and start{side: b} resolved it to Loss
C3_Witness ==
    /\ lastEvent.name = "start" /\ side = "b"
    /\ gameState = "finished" /\ winner = "opponent" /\ endCalls = 1

\* C4: in every state of local Tic-Tac-Toe, the fade delay included, each
\* side holds at most 3 marks.
C4_DecayInvariant ==
    \A sym \in {"X", "O"} : Cardinality(Marks(sym)) <= 3

\* both sides hold 3 marks after the AI placed a 4th with eviction
C4_Witness ==
    /\ lastEvent.name = "aiFade"
    /\ Cardinality(Marks("X")) = 3 /\ Cardinality(Marks("O")) = 3

\* C5: a Connect-Four cell is occupied only if it is in the last row or the
\* cell below it is occupied.
C5_GravityInvariant ==
    \A row \in 0..(C4Rows - 2), col \in 0..(C4Cols - 1) :
        c4Board[row * C4Cols + col] # Null
           => c4Board[(row + 1) * C4Cols + col] # Null

\* a drop landed on another token in the round after a full-board reset
C5_Witness ==
    /\ c4RoundCount = 2
    /\ \E col \in 0..(C4Cols - 1) :
          /\ c4Board[(C4Rows - 1) * C4Cols + col] # Null
          /\ c4Board[(C4Rows - 2) * C4Cols + col] # Null

\* C6: clock expiry while side S owns the turn of a started match finishes
\* the session with Loss if S is the local side and Win if S is the
\* opponent's.
C6_ExpiryFavoursOffClock ==
    [][(lastEvent'.name = "tick" /\ started /\ gameState = "playing"
        /\ gameState' = "finished")
          => winner' = IF LocalOnClock THEN "opponent" ELSE "player"]_vars

\* C7: the countdown's expiry finishes the session exactly once, with the
\* side on the clock as the loser.
C7_ExpiryOnceClockedLoses ==
    (started /\ lastEvent.name = "tick" /\ gameState = "finished")
       => /\ endCalls = 1
          /\ turnTime = 0
          /\ winner = IF LocalOnClock THEN "opponent" ELSE "player"

\* C8: a clock tick happens only in a Playing state with no fade, token
\* drop, reveal or awaiting-opponent gate: while a gate is active the
\* countdown is neither decremented nor expired by the clock.
C8_ClockSuspended ==
    [][lastEvent'.name = "tick" =>
          /\ gameState = "playing"
          /\ fadingCell = NoCell
          /\ c4DroppingToken = NoToken
          /\ ~rpsWaitingForOpponent
          /\ ~rpsRevealing]_vars

\* the countdown stands below the budget while a fade is in progress
C8_Witness == fadingCell # NoCell /\ turnTime = TurnBudget - 1

\* C9: every change of turn owner leaves the countdown at the budget, or at
\* the resynchronised value when a start or state event carried a timestamp.
C9_TurnChangeResetsClock ==
    [][TurnOwnerChanged =>
          \/ turnTime' = TurnBudget
          \/ /\ lastEvent'.name \in {"start", "state"}
             /\ turnTime' \in {SyncedTime(e) : e \in ElapsedValues}]_vars

\* C10: swapping the marks of a board swaps the winner checkTTTWinner
\* reports, and a board without a winner stays without one.
C10_WinSymmetric ==
    probe # NoProbe =>
        probe.swapped = (IF probe.orig = "X" THEN "O"
                         ELSE IF probe.orig = "O" THEN "X" ELSE Null)

\* a board with a line of X and a line of O, on which the first line in scan
\* order decides
C10_Witness ==
    /\ probe.orig = "X" /\ probe.swapped = "O"
    /\ \A i \in {3, 4, 5} : tttBoard[i] = "O"


NoLineOfFour(board) == checkC4Winner(board) = Null

\* C11: in local Connect Four a drop that fills the board without a line of
\* four leaves the session Playing, and the reset that follows empties the
\* board, adds exactly 1 to the round counter and gives the turn to red.
C11_FullBoardReset ==
    [][ /\ (lastEvent'.name \in {"c4Drop", "c4AIDrop"} /\ gameState = "playing"
            /\ C4Full(c4Board') /\ NoLineOfFour(c4Board'))
           => gameState' = "playing"
        /\ lastEvent'.name = "c4Reset"
           => /\ c4Board' = EmptyC4
              /\ c4RoundCount' = c4RoundCount + 1
              /\ c4CurrentPlayer' = "red"
              /\ gameState' = gameState ]_vars

\* the reset ran after yellow's drop had filled the board
C11_Witness ==
    /\ lastEvent.name = "c4Reset" /\ gameState = "playing"
    /\ c4RoundCount = 2 /\ c4Board = EmptyC4 /\ c4CurrentPlayer = "red"

HasLine(board, sym) ==
    \E i \in DOMAIN TTTLines : \A k \in 1..3 : board[TTTLines[i][k]] = sym

\* C12 as stated: after SideA placed 0, 1, 2 alternating with the AI on 3, 4
\* the session is still Playing, so that a 4th SideA move can follow.
C12_FourthMoveAfterTopRow ==
    (playerMoves = << 0, 1, 2 >> /\ opponentMoves = << 3, 4 >>)
       => gameState = "playing"

\* C12 amended: SideA's marks 0, 1, 2 (AI on 3, 4) end the session with a
\* Win at the third move; and whenever SideA, holding three marks, places a
\* 4th (marks 0, 1, 6 and then cell 2, say), the fade callback removes the
\* oldest mark from the board and from the history as it places the new one.
C12_OldestRemovedOnFourth ==
    [][ /\ (playerMoves' = << 0, 1, 2 >> /\ opponentMoves' = << 3, 4 >>)
           => (gameState' = "finished" /\ winner' = "player")
        /\ lastEvent'.name = "playerFade"
           => /\ Len(playerMoves) = 3 /\ Len(playerMoves') = 3
              /\ fadingCell = playerMoves[1] /\ fadingCell' = NoCell
              /\ SubSeq(playerMoves', 1, 2) = Tail(playerMoves)
              /\ tttBoard' = [tttBoard EXCEPT ![playerMoves[1]] = Null,
                                              ![playerMoves'[3]] = "X"] ]_vars

\* SideA held 0, 1, 6 and placed its 4th mark at 2: cell 0 is empty
C12_Witness ==
    /\ lastEvent.name = "playerFade" /\ gameState = "playing"
    /\ playerMoves = << 1, 6, 2 >> /\ tttBoard[0] = Null

\* C13: in local Tic-Tac-Toe the 4th mark of a side wins exactly when the
\* board after the eviction of that side's oldest mark holds a line of
\* three of its marks.
C13_WinOnPostEvictionBoard ==
    [][ /\ (lastEvent'.name = "playerFade" /\ gameState = "playing")
           => /\ (gameState' = "finished") = HasLine(tttBoard', "X")
              /\ gameState' = "finished" => winner' = "player"
        /\ (lastEvent'.name = "aiFade" /\ gameState = "playing")
           => /\ (gameState' = "finished") = HasLine(tttBoard', "O")
              /\ gameState' = "finished" => winner' = "opponent" ]_vars

\* the AI held 3, 4, 7 and placed its 4th mark at 5: the line 3, 4, 5 would
\* need the evicted cell and the session goes on
C13_Witness ==
    /\ lastEvent.name = "aiFade" /\ gameState = "playing"
    /\ opponentMoves = << 4, 7, 5 >> /\ tttBoard[3] = Null


\* C14: in a Finished session with a stake a Win carries arkDelta = 2 x stake
\* and a Loss arkDelta = -stake (stake 10: +20 / -10); in free play arkDelta
\* and xpDelta are 0 for every outcome.
C14_RewardDeltas ==
    gameState = "finished" =>
        /\ (playMode = "stake" /\ winner = "player")
              => (earnedARK = 2 * stakeAmount /\ earnedARK = 20)
        /\ (playMode = "stake" /\ winner = "opponent")
              => (earnedARK = 0 - stakeAmount /\ earnedARK = -10)
        /\ playMode = "free" => (earnedARK = 0 /\ earnedXP = 0)

\* a staked session won by the local participant
C14_Witness ==
    /\ gameState = "finished" /\ playMode = "stake" /\ winner = "player"
    /\ stakeAmount = 10 /\ earnedARK = 20


ScoreAtTarget == rpsPlayerScore >= RpsTarget \/ rpsOpponentScore >= RpsTarget

\* C15: once a side's round wins reach 5 no further round is started, and
\* the result pause that follows the fifth win ends the session with that
\* side as the winner.
C15_FirstToFiveEnds ==
    [][ /\ ScoreAtTarget => rpsCurrentRound' = rpsCurrentRound
        /\ (lastEvent'.name \in {"rpsAdvance", "netAdvance"}
            /\ rpsPlayerScore >= RpsTarget /\ rpsOpponentScore < RpsTarget)
           => (gameState' = "finished" /\ winner' = "player")
        /\ (lastEvent'.name \in {"rpsAdvance", "netAdvance"}
            /\ rpsOpponentScore >= RpsTarget /\ rpsPlayerScore < RpsTarget)
           => (gameState' = "finished" /\ winner' = "opponent") ]_vars


\* C16: in multiplayer Tic-Tac-Toe and Connect Four an accepted local move
\* sends one move message and gives the perceived turn to the opponent
\* without touching the board or the move histories; the board changes
\* only in the step that processes a state event.
C16_OptimisticFlipOnly ==
    [][(opponentType = "player" /\ game \in {"TTT", "C4"}) =>
          /\ lastEvent'.name \in {"tttClick", "c4Click"}
             => /\ sent' = Append(sent, "move")
                /\ tttBoard' = tttBoard /\ c4Board' = c4Board
                /\ playerMoves' = playerMoves /\ opponentMoves' = opponentMoves
                /\ game = "TTT" => (/\ tttCurrentPlayer = playerSymbol(State)
                                    /\ tttCurrentPlayer' = opponentSymbol(State))
                /\ game = "C4" => (/\ c4CurrentPlayer = playerColor(State)
                                   /\ c4CurrentPlayer' = opponentColor(State))
          /\ (tttBoard' # tttBoard \/ c4Board' # c4Board)
             => lastEvent'.name = "state" ]_vars

\* a move was accepted on a board that a state event had delivered
C16_Witness ==
    /\ opponentType = "player" /\ game = "TTT"
    /\ lastEvent.name = "tttClick" /\ Len(sent) = 1
    /\ tttBoard = TTTBoardOf({4}, {}) /\ tttCurrentPlayer = opponentSymbol(State)

\* the state after a state event with the given snapshot was processed
AfterState(board, current) ==
    Done(State, Counted(onState(State, [board |-> board, current |-> current,
                                        stamp |-> NoStamp])), "state", Null)

\* C17: from every reachable multiplayer state, processing a state event
\* leaves the board equal to the snapshot board, the turn owner equal to the
\* snapshot's current side (a = X / red, b = O / yellow) and no fade or
\* token-drop gate.
C17_StateOverrides ==
    /\ (opponentType = "player" /\ game = "TTT") =>
          \A board \in TTTSnapshots, current \in Sides :
              /\ AfterState(board, current).tttBoard = board
              /\ AfterState(board, current).tttCurrentPlayer =
                    (IF current = "a" THEN "X" ELSE "O")
              /\ AfterState(board, current).fadingCell = NoCell
    /\ (opponentType = "player" /\ game = "C4") =>
          \A board \in C4Snapshots, current \in Sides :
              /\ AfterState(board, current).c4Board = board
              /\ AfterState(board, current).c4CurrentPlayer =
                    (IF current = "a" THEN "red" ELSE "yellow")
              /\ AfterState(board, current).c4DroppingToken = NoToken

\* a state event gave the turn back to the local side (a, X) after the local
\* move had flipped it to the opponent
C17_Witness ==
    /\ opponentType = "player" /\ game = "TTT" /\ side = "a"
    /\ lastEvent.name = "state" /\ Len(sent) = 1
    /\ tttBoard = TTTBoardOf({4}, {}) /\ tttCurrentPlayer = "X"


\* the local result of a reveal for the side sd
RevealResult(data, sd) ==
    IF data.winnerSide = Null THEN "draw"
    ELSE IF data.winnerSide = sd THEN "win" ELSE "lose"

\* C18: a reveal buffered while the side is unknown stays in the buffer of a
\* Playing session until it is processed with the assigned side, mapped to
\* the local result by its winnerSide; the reveal pause then adds exactly
\* one point to the round winner (none on a draw) and the result pause
\* advances the round counter by exactly one.
C18_BufferedRevealKept ==
    [][ /\ (pendingRpsReveal # NoReveal /\ gameState = "playing"
            /\ pendingRpsReveal' # pendingRpsReveal)
           => /\ side' # Null /\ pendingRpsReveal' = NoReveal
              /\ rpsRevealing'
              /\ Len(timers') = Len(timers) + 1
              /\ timers'[Len(timers')].kind = "netReveal"
              /\ timers'[Len(timers')].result =
                    RevealResult(pendingRpsReveal, side')
        /\ lastEvent'.name = "netReveal"
           => /\ rpsPlayerScore' = rpsPlayerScore
                    + (IF rpsRoundResult' = "win" THEN 1 ELSE 0)
              /\ rpsOpponentScore' = rpsOpponentScore
                    + (IF rpsRoundResult' = "lose" THEN 1 ELSE 0)
        /\ lastEvent'.name = "netAdvance"
           => rpsCurrentRound' = rpsCurrentRound + 1 ]_vars


\* the top cell of column col is occupied: the column is full
ColumnFull(col) == c4Board[col] # Null

\* C19: in every reachable state a click on an occupied Tic-Tac-Toe cell, a
\* click while the turn is not the local side's, and a click on a full
\* Connect-Four column leave the whole session state as it is, the list of
\* sent messages included.
C19_IllegalMoveRejected ==
    /\ game = "TTT" =>
          \A index \in TTTCells :
              (tttBoard[index] # Null \/ tttCurrentPlayer # playerSymbol(State))
                 => pressTTTCell(State, index) = State
    /\ game = "C4" =>
          \A col \in 0..(C4Cols - 1) :
              (ColumnFull(col) \/ c4CurrentPlayer # playerColor(State))
                 => pressC4Column(State, col) = State

\* the local side of a Playing local session is to move, outside any gate, on
\* a board with an occupied cell
C19_Witness ==
    /\ game = "TTT" /\ opponentType = "ai" /\ gameState = "playing"
    /\ tttCurrentPlayer = playerSymbol(State) /\ fadingCell = NoCell
    /\ Len(playerMoves) = 3 /\ Len(opponentMoves) = 3

\* a gate of the session's game is active
InputGate ==
    \/ fadingCell # NoCell
    \/ c4DroppingToken # NoToken
    \/ rpsWaitingForOpponent
    \/ rpsRevealing

\* C20: in every reachable state that is Finished or has a gate active, a
\* cell click, a column click and a choice each leave the whole session
\* state as it is, the list of sent messages included.
C20_InputIgnored ==
    (gameState = "finished" \/ InputGate) =>
        /\ game = "TTT" => \A index \in TTTCells : pressTTTCell(State, index) = State
        /\ game = "C4" =>
              \A col \in 0..(C4Cols - 1) : pressC4Column(State, col) = State
        /\ game = "RPS" =>
              \A choice \in Choices : pressRPSChoice(State, choice) = State

\* a Finished Rock-Paper-Scissors session outside the reveal gates
C20_Witness ==
    /\ game = "RPS" /\ gameState = "finished"
    /\ ~rpsWaitingForOpponent /\ ~rpsRevealing


\* the steps that run a delayed callback
TimerEvents ==
    {"playerFade", "aiThink", "aiFade", "c4Drop", "c4AIThink", "c4AIDrop",
     "c4Reset", "rpsAI", "rpsReveal", "rpsAdvance", "netReveal", "netAdvance"}

\* the steps that process an inbound transport event
InboundEvents == {"start", "state", "opponent_move", "game_end", "rps_reveal"}

\* C21: a delayed callback that fires in a Finished session changes no
\* board, history, score, round counter, turn owner, countdown or outcome.
C21_TimersInertWhenFinished ==
    [][(gameState = "finished" /\ lastEvent'.name \in TimerEvents) =>
          /\ tttBoard' = tttBoard /\ c4Board' = c4Board
          /\ playerMoves' = playerMoves /\ opponentMoves' = opponentMoves
          /\ rpsPlayerScore' = rpsPlayerScore
          /\ rpsOpponentScore' = rpsOpponentScore
          /\ rpsCurrentRound' = rpsCurrentRound /\ c4RoundCount' = c4RoundCount
          /\ tttCurrentPlayer' = tttCurrentPlayer
          /\ c4CurrentPlayer' = c4CurrentPlayer
          /\ turnTime' = turnTime
          /\ winner' = winner /\ earnedXP' = earnedXP
          /\ earnedARK' = earnedARK ]_vars

ForfeitSent == \E i \in DOMAIN sent : sent[i] = "forfeit"

\* C22: in multiplayer, after the forfeit action no step processes an
\* inbound transport event.
C22_NoInboundAfterForfeit ==
    [][(opponentType = "player" /\ ForfeitSent)
          => lastEvent'.name \notin InboundEvents]_vars

\* C24: the forfeit action is taken in a Playing state and its step makes
\* the session Finished with the opponent as winner; in multiplayer the
\* step appends the forfeit message to the messages sent, on a channel that
\* is open and that the step does not close.
C24_ForfeitIsLoss ==
    [][lastEvent'.name = "forfeit" =>
          /\ gameState = "playing"
          /\ gameState' = "finished" /\ winner' = "opponent"
          /\ opponentType = "player"
             => /\ wsOpen /\ wsOpen'
                /\ closes' = closes
                /\ sent' = Append(sent, "forfeit")
          /\ opponentType = "ai" => sent' = sent ]_vars

\* a multiplayer session forfeited after a move had been sent
C24_Witness ==
    /\ lastEvent.name = "forfeit" /\ opponentType = "player"
    /\ sent = << "move", "forfeit" >> /\ wsOpen
    /\ gameState = "finished" /\ winner = "opponent"


\* C25: the step in which a result submission fails retries nothing,
\* refreshes no balance, leaves the outcome and the reward deltas as they
\* were, leaves the session Finished and leaves the channel closed.
C25_SubmitFailureAbsorbed ==
    [][(lastEvent'.name = "submitSettled" /\ lastEvent'.arg = "failed") =>
          /\ submits' = submits /\ refreshes' = refreshes
          /\ winner' = winner
          /\ earnedXP' = earnedXP /\ earnedARK' = earnedARK
          /\ gameState' = "finished"
          /\ ~wsOpen' ]_vars

\* C27: in multiplayer, once the session is Finished and every end-of-game
\* handling has run to completion, the channel is closed.
C27_FinishedThenClosed ==
    (opponentType = "player" /\ gameState = "finished" /\ asyncEnds = << >>)
        => ~wsOpen


\* C23: the channel of a multiplayer session is never closed twice, and a
\* session that has been torn down and has no end-of-game handling pending
\* has closed it once.
C23_ClosedExactlyOnce ==
    opponentType = "player" =>
        /\ closes <= 1
        /\ (~mounted /\ asyncEnds = << >>) => closes = 1


EmptyCells(board) == {c \in TTTCells : board[c] = Null}

\* C28: in local Tic-Tac-Toe every Playing state has at least three empty
\* cells, every board handed to the AI has an empty cell to choose from, and
\* the outcome is never a draw.
C28_EmptyCellsRemain ==
    (game = "TTT" /\ opponentType = "ai") =>
        /\ gameState = "playing" => Cardinality(EmptyCells(tttBoard)) >= 3
        /\ \A i \in DOMAIN timers :
              timers[i].kind = "aiThink" => EmptyCells(timers[i].board) # {}
        /\ winner # "draw"

\* the AI is about to choose on a board that holds three marks of each
\* player but the one fading out
C28_Witness ==
    /\ game = "TTT" /\ opponentType = "ai" /\ gameState = "playing"
    /\ Cardinality(EmptyCells(tttBoard)) = 3
    /\ \E i \in DOMAIN timers :
          /\ timers[i].kind = "aiThink"
          /\ Cardinality(EmptyCells(timers[i].board)) = 3


\* four cells of the colour, consecutive in a row, a column or a diagonal,
\* all of them inside the grid of C4Rows rows and C4Cols columns
FourInLine(board, colour) ==
    \E r \in 0..(C4Rows - 1), c \in 0..(C4Cols - 1),
       d \in {<<0, 1>>, <<1, 0>>, <<1, 1>>, <<1, -1>>} :
        \A k \in 0..3 :
            /\ r + k * d[1] \in 0..(C4Rows - 1)
            /\ c + k * d[2] \in 0..(C4Cols - 1)
            /\ board[(r + k * d[1]) * C4Cols + (c + k * d[2])] = colour

\* C29: checkC4Winner reports a winner exactly when the board holds four
\* equal non-empty consecutive cells in a row, a column or a diagonal inside
\* the grid, and the colour it reports has such a line.
C29_C4WinnerExact ==
    lastEvent.name = "checkC4Winner" =>
        /\ probe.orig # Null
              <=> \E colour \in {"red", "yellow"} : FourInLine(c4Board, colour)
        /\ probe.orig # Null => FourInLine(c4Board, probe.orig)

\* four red cells at the end of the first row and the start of the second
\* (indices 5, 6, 7, 8), checked and found to be no line
C29_Witness ==
    /\ lastEvent.name = "checkC4Winner" /\ probe.orig = Null
    /\ \A i \in {5, 6, 7, 8} : c4Board[i] = "red"


\* C30: a game_end message handled in a Playing multiplayer session, whatever
\* combination of fields it carries: a draw flag gives Draw; otherwise a
\* winning side gives Win or Loss by comparison with the local side, and is
\* buffered with the session still Playing while the local side is unknown;
\* otherwise the winner identity gives Win if it is the local address and
\* Loss in every other case.
C30_GameEndPrecedence ==
    (opponentType = "player" /\ gameState = "playing") =>
        \A data \in [isDraw : BOOLEAN, winnerSide : Sides \cup {Null},
                     winner : {"address", "other", Null}] :
            LET r == Done(State, Counted(onGameEnd(State, data)), "game_end", Null)
            IN  IF data.isDraw
                THEN r.gameState = "finished" /\ r.winner = "draw"
                ELSE IF data.winnerSide # Null
                THEN IF side = Null
                     THEN /\ r.gameState = "playing" /\ r.winner = Null
                          /\ r.pendingWinnerSide = data.winnerSide
                     ELSE /\ r.gameState = "finished"
                          /\ r.winner = (IF data.winnerSide = side
                                         THEN "player" ELSE "opponent")
                ELSE /\ r.gameState = "finished"
                     /\ r.winner = (IF data.winner = "address"
                                    THEN "player" ELSE "opponent")

\* side a, told by a game_end message that side b has won
C30_Witness ==
    /\ opponentType = "player" /\ side = "a"
    /\ lastEvent = [name |-> "game_end", arg |-> "b"]
    /\ gameState = "finished" /\ winner = "opponent"


\* the step sends one more message of the kind
Sends(kind) == sent' = Append(sent, kind)

\* the Rock-Paper-Scissors input gate
RpsGate == rpsWaitingForOpponent \/ rpsRevealing

\* C31: in multiplayer Tic-Tac-Toe and Connect Four a step that sends a move
\* is taken on the local side's turn and leaves the turn with the opponent,
\* and only a start or state step gives the turn back to the local side; in
\* multiplayer Rock-Paper-Scissors a step that sends a choice is taken with
\* the gate down and raises it, the gate comes down only in a step that
\* advances the round, and the round counter never decreases.
C31_NoDuplicateSubmission ==
    [][opponentType = "player" =>
          /\ Sends("move") => (LocalOnClock /\ ~LocalOnClock')
          /\ (game \in {"TTT", "C4"} /\ ~LocalOnClock /\ LocalOnClock')
                => lastEvent'.name \in {"start", "state"}
          /\ Sends("choice") => (~RpsGate /\ RpsGate')
          /\ (RpsGate /\ ~RpsGate') => rpsCurrentRound' > rpsCurrentRound
          /\ rpsCurrentRound' >= rpsCurrentRound ]_vars

\* a second move sent after a state event had given the turn back
C31_Witness ==
    /\ opponentType = "player" /\ game = "TTT"
    /\ lastEvent.name = "tttClick" /\ sent = << "move", "move" >>
    /\ ~LocalOnClock


\* the cells of a history
Cells(moves) == {moves[i] : i \in DOMAIN moves}

\* a history of at most 3 distinct cells that are the cells holding the mark
Consistent(moves, sym) ==
    /\ Len(moves) <= 3
    /\ \A i, j \in DOMAIN moves : moves[i] = moves[j] => i = j
    /\ Cells(moves) = Marks(sym)

\* placement orders in which the server can have reached the boards of
\* TTTSnapshots: x and o are the histories of X and O, oldest mark first
ServerHistories ==
    { [x |-> << 4 >>, o |-> << >>],
      [x |-> << 4, 2, 7 >>, o |-> << 0, 1, 8 >>] }

\* the state message the server sends for its histories h
StateOf(h, current) ==
    [board |-> TTTBoardOf(Cells(h.x), Cells(h.o)), current |-> current,
     stamp |-> NoStamp]

\* C32: outside a fade delay each side's Tic-Tac-Toe history has at most 3
\* entries and lists exactly the cells that hold that side's marks, and
\* after a state event in multiplayer each history is in placement order,
\* oldest mark first.
C32_HistoryConsistent ==
    game = "TTT" =>
        /\ fadingCell = NoCell =>
              /\ Consistent(playerMoves, playerSymbol(State))
              /\ Consistent(opponentMoves, opponentSymbol(State))
        /\ (opponentType = "player" /\ wsOpen /\ started) =>
              \A h \in ServerHistories, current \in Sides :
                  LET r == Done(State, onState(State, StateOf(h, current)),
                                "state", Null)
                  IN  {r.playerMoves, r.opponentMoves} = {h.x, h.o}


\* C33: in every reachable state the remaining seconds are an integer
\* between 0 and the budget of 30 inclusive.
C33_CountdownWithinBudget == turnTime \in 0..TurnBudget


\* C34: in multiplayer, while no start or state event has been received, a
\* clock tick neither finishes the session nor records an outcome.
C34_NoExpiryBeforeStart ==
    [][(opponentType = "player" /\ ~started /\ lastEvent'.name = "tick")
          => (gameState' = "playing" /\ winner' = Null)]_vars


\* C35: in multiplayer Tic-Tac-Toe and Connect Four a move is sent only in a
\* started match on the local side's turn, and the turn owner is whoever the
\* latest start or state event announced: apart from those events only the
\* sending step changes it, and it hands the turn to the opponent.
C35_MoveOnlyOnOwnTurn ==
    [][(opponentType = "player" /\ game \in {"TTT", "C4"}) =>
          /\ Sends("move") => (started /\ LocalOnClock)
          /\ (TurnOwnerChanged /\ lastEvent'.name \notin {"start", "state"})
                => (Sends("move") /\ ~LocalOnClock') ]_vars

\* a Connect Four move sent after a state event had started the match and
\* announced the local colour's turn, the side not yet known
C35_Witness ==
    /\ opponentType = "player" /\ game = "C4" /\ side = Null
    /\ lastEvent.name = "c4Click" /\ sent = << "move" >> /\ started


\* C36: over any execution the ledger's addXP is invoked at most once and
\* the terminal result is submitted at most once.
C36_RewardsOnce == xpAdds <= 1 /\ submits <= 1


\* C37: a Finished session with a stake whose outcome is Draw carries
\* arkDelta = -stake and the XP change of a loss, the deltas of a Loss.
C37_DrawRewardedAsLoss ==
    (gameState = "finished" /\ playMode = "stake" /\ winner = "draw") =>
        /\ earnedARK = 0 - stakeAmount
        /\ earnedXP = calculateXPChange(FALSE)

\* a staked session ended in a draw by the server
C37_Witness ==
    /\ gameState = "finished" /\ playMode = "stake" /\ winner = "draw"
    /\ lastEvent = [name |-> "game_end", arg |-> "draw"]
    /\ stakeAmount = 10 /\ earnedARK = -10 /\ xpAdds = 1


\* the pending delayed callbacks of the AI's move
AITimers(ts) ==
    {i \in DOMAIN ts : ts[i].kind \in {"aiThink", "aiFade", "c4AIThink", "c4AIDrop"}}

\* the cells that hold the mark in the new board and did not in the old one
Placed(old, new, mark) == {c \in DOMAIN new : new[c] = mark /\ old[c] # mark}

\* C38: in local Tic-Tac-Toe and Connect Four a player's placement that
\* leaves the session Playing (and the board not full) hands the turn to the
\* AI with exactly one AI move pending; a step in which the AI changes the
\* board is taken on the AI's turn, places exactly one AI mark, on a cell
\* that was empty, touches no mark of the player, and leaves the session
\* Finished or the turn with the player (or the full board awaiting its
\* reset); at most one AI move is ever pending, and only on the AI's turn.
C38_TurnsAlternate ==
    [][(opponentType = "ai" /\ game \in {"TTT", "C4"}) =>
          /\ (lastEvent'.name \in {"tttClick", "playerFade"}
                /\ tttBoard' # tttBoard /\ gameState' = "playing")
                => (tttCurrentPlayer' = "O"
                    /\ Cardinality(AITimers(timers')) = 1)
          /\ (lastEvent'.name = "c4Drop" /\ gameState' = "playing"
                /\ ~C4Full(c4Board'))
                => (c4CurrentPlayer' = "yellow"
                    /\ Cardinality(AITimers(timers')) = 1)
          /\ (lastEvent'.name \in {"aiThink", "aiFade"} /\ tttBoard' # tttBoard)
                => /\ tttCurrentPlayer = "O"
                   /\ \E c \in TTTCells :
                         /\ tttBoard[c] = Null
                         /\ Placed(tttBoard, tttBoard', "O") = {c}
                   /\ \A c \in TTTCells : (tttBoard[c] = "X") <=> (tttBoard'[c] = "X")
                   /\ gameState' = "finished" \/ tttCurrentPlayer' = "X"
          /\ (lastEvent'.name = "c4AIDrop")
                => /\ c4CurrentPlayer = "yellow"
                   /\ \E c \in C4Cells :
                         /\ c4Board[c] = Null
                         /\ c4Board' = [c4Board EXCEPT ![c] = "yellow"]
                   /\ \/ gameState' = "finished" \/ c4CurrentPlayer' = "red"
                      \/ C4Full(c4Board')
          /\ Cardinality(AITimers(timers')) <= 1
          /\ AITimers(timers') # {}
                => (IF game = "TTT" THEN tttCurrentPlayer' = "O"
                    ELSE c4CurrentPlayer' = "yellow") ]_vars

\* the AI has answered the player's Connect Four drop and the turn is back
\* with the player
C38_Witness ==
    /\ opponentType = "ai" /\ game = "C4" /\ gameState = "playing"
    /\ lastEvent.name = "c4AIDrop" /\ c4CurrentPlayer = "red"
    /\ timers = << >>
    /\ Cardinality({c \in C4Cells : c4Board[c] = "yellow"}) = 1


\* C39: in local mode, provided scheduled callbacks eventually fire, a
\* Playing session with a gate raised (fade, token drop, waiting, reveal)
\* eventually has every gate lowered or is Finished.
C39_GatesEventuallyLowered ==
    (opponentType = "ai" /\ gameState = "playing" /\ GateActive(State))
        ~> (~GateActive(State) \/ gameState = "finished")

\* a Rock-Paper-Scissors round that went through waiting and reveal and
\* opened the next round with the gates lowered
C39_Witness ==
    /\ opponentType = "ai" /\ game = "RPS" /\ gameState = "playing"
    /\ lastEvent.name = "rpsAdvance" /\ rpsCurrentRound = 2
    /\ ~GateActive(State)


\* the rules shown to the player: rock beats scissors, scissors beats paper,
\* paper beats rock
Beats(p, o) ==
    << p, o >> \in { << "rock", "scissors" >>, << "scissors", "paper" >>,
                     << "paper", "rock" >> }

\* C40: for all choices p, o determineRPSWinner returns draw iff p = o, win
\* iff p beats o, and win for (p, o) iff lose for (o, p); it returns draw
\* when either choice is missing; and the result of every local round
\* revealed is the judgement of the two choices shown.
C40_JudgeCorrect ==
    /\ \A p, o \in Choices :
          /\ determineRPSWinner(p, o) = "draw" <=> p = o
          /\ determineRPSWinner(p, o) = "win" <=> Beats(p, o)
          /\ determineRPSWinner(p, o) = "win"
                <=> determineRPSWinner(o, p) = "lose"
          /\ determineRPSWinner(p, o) \in {"win", "lose", "draw"}
    /\ \A p \in Choices \cup {Null} :
          /\ determineRPSWinner(p, Null) = "draw"
          /\ determineRPSWinner(Null, p) = "draw"
    /\ (opponentType = "ai" /\ lastEvent.name = "rpsReveal") =>
          rpsRoundResult =
              (IF rpsPlayerChoice = rpsOpponentChoice THEN "draw"
               ELSE IF Beats(rpsPlayerChoice, rpsOpponentChoice) THEN "win"
               ELSE "lose")

\* a local round in which the player's paper was judged against the AI's rock
C40_Witness ==
    /\ opponentType = "ai" /\ lastEvent.name = "rpsReveal"
    /\ rpsPlayerChoice = "paper" /\ rpsOpponentChoice = "rock"
    /\ rpsRoundResult = "win" /\ rpsPlayerScore = 1

====
